---- MODULE Spec2Model ----
(***************************************************************************)
(* A model of three subsystems of genome-spy:                              *)
(*   - ParamMediator and activateExprRefProps (paramMediator.js),          *)
(*   - the view hierarchy and its initialization (view.js, viewUtils),     *)
(*   - the vertex builders (dataToVertices.js).                            *)
(* Each subsystem has its own specification over the shared variables; a   *)
(* specification leaves the variables of the other subsystems untouched.   *)
(***************************************************************************)
EXTENDS Integers, Sequences, FiniteSets, TLC

(***************************************************************************)
(* Bounds                                                                  *)
(***************************************************************************)
MaxParams == 2      \* total number of allocated setters in the mediator tree
MaxExprs == 2       \* total number of compiled (cached) expressions
NumCallbacks == 1   \* distinct consumer callback functions
MaxPending == 2     \* longest pending list of one activation

(***************************************************************************)
(* ParamMediator: the mediator tree and the values                         *)
(***************************************************************************)
\* The mediator tree: 1 is the root, 2 and 3 are its children.  0 stands for
\* "no mediator" (parentFinder returns undefined).
ParentOf == <<0, 1, 1>>
Mediators == DOMAIN ParentOf
\* The mediators that register parameters; mediator 3 only consumes.
Owners == {1, 2}
Names == {"a", "b"}

\* JavaScript values: numbers, undefined and NaN.  NoEntry marks a key
\* that is absent from a Map (Map.has is false).
Undefined == -1
NaN == -2
NoEntry == -3
StaticValues == {1, Undefined}

\* Map.get: an absent key reads as undefined.
MapGet(x) == IF x = NoEntry THEN Undefined ELSE x

\* The setter's test `value !== previous` negated: strict identity, under
\* which NaN differs from itself.  IdenticalAlways is the faulty variant that
\* takes no two values for identical, so that the setter always notifies.
IdenticalAlways(value, previous) == FALSE
Identical(value, previous) == value = previous /\ value # NaN

\* The expression sources and their free variables (fn.globals), in order.
ExprTexts == {"a", "a + b"}
Globals(expr) == IF expr = "a" THEN <<"a">> ELSE <<"a", "b">>
GlobalSet(expr) == {Globals(expr)[i] : i \in DOMAIN Globals(expr)}

\* JavaScript's + on numbers: undefined and NaN operands give NaN.
JsPlus(x, y) == IF x \in {Undefined, NaN} \/ y \in {Undefined, NaN} THEN NaN ELSE x + y

\* Listeners are closures; a record identifies the closure.
\*   "param": () => realSetter(expr(null)) of registerParam
\*   "prop":  () => batchPropertyChange(key) of activateExprRefProps
\*   "cb":    a callback of an external consumer
LParam(m, name, expr) == [kind |-> "param", m |-> m, name |-> name, expr |-> expr, id |-> 0]
LProp(m, key, expr) == [kind |-> "prop", m |-> m, name |-> key, expr |-> expr, id |-> 0]
LCb(id) == [kind |-> "cb", m |-> 0, name |-> "", expr |-> "", id |-> id]
Callbacks == 1..NumCallbacks

VARIABLES
    paramValues,        \* [m][name]: #paramValues, NoEntry when absent
    paramListeners,     \* [m][name]: the listener Set, in insertion order
    allocatedSetters,   \* [m]: names that have a setter
    paramConfigs,       \* [m][name]: "none", "value" or the expr text
    expressions,        \* [m]: cached expression sources
    mediatorsForParams, \* [m][expr][name]: the mediator bound, 0 if none
    myListeners,        \* [m][expr]: listeners added through the expression
    attached,           \* [m][expr]: those added since the expression's last invalidate()
    activated,          \* activateExprRefProps: mediator of the activation, 0 if none
    alteredProps,       \* the pending list of the activation
    microtasks,         \* number of queued flush microtasks
    delivered,          \* the list the listener received in the last flush
    log,                \* the setter and listener calls of the last operation
    lastOp              \* the last operation and its arguments

pmVars == <<paramValues, paramListeners, allocatedSetters, paramConfigs, expressions,
            mediatorsForParams, myListeners, attached, activated, alteredProps, microtasks,
            delivered, log, lastOp>>

\* The view hierarchy and initializeViewHierarchy
VARIABLES
    viewSpec,           \* [view]: the spec fragment: data declared?, transform configs
    viewData,           \* [view]: this.data, NoData when undefined
    loadState,          \* [view]: the promise of loadData(): idle, pending, fulfilled, rejected
    initPc,             \* where initializeViewHierarchy is
    initIdx,            \* the index of the running loop
    markState,          \* [view]: the promise of mark.initializeData()
    callLog             \* the calls initializeViewHierarchy has made, in order

vhVars == <<viewSpec, viewData, loadState, initPc, initIdx, markState, callLog>>

\* A vertex builder (gl/dataToVertices.js)
VARIABLES
    builder,            \* which VertexBuilder class the object is
    index,              \* this.index
    vertices,           \* the variable store: one record per pushAll, in order
    pending,            \* the values the next pushAll of variableBuilder will append
    rangeMap,           \* this.rangeMap: the entries in the Map's insertion order
    nData,              \* how many data items addBatch has been given so far
    vbResult,           \* what the last toArrays() returned
    vbLast              \* the last call on the builder and its arguments

vbVars == <<builder, index, vertices, pending, rangeMap, nData, vbResult, vbLast>>

\* The configuration queries of View (view/view.js)
VARIABLES
    encoding,           \* [view]: spec.encoding, <<>> when undefined, else <<the object>>
    renderConfig,       \* [view]: spec.renderConfig, likewise
    cfgLast             \* the last query: the method, the view and what it returned

cfgVars == <<encoding, renderConfig, cfgLast>>

\* The sample facet functions of the vertex shader
VARIABLES
    uSampleFacet,       \* the uniform: left pos, left height, right pos, right height
    uTransitionOffset,  \* the uniform
    sfLast              \* the last applySampleFacet call: pos and what it returned

sfVars == <<uSampleFacet, uTransitionOffset, sfLast>>

\* The colour conversion of a vertex builder (gl/dataToVertices.js)
VARIABLES
    cache,              \* the fastmap of the closure: colour string -> float triple
    ccLast              \* the last conversion: the colour and what c2f returned

ccVars == <<cache, ccLast>>

\* MouseTracker (mouseTracker.js), its timers and its conversions in flight
VARIABLES
    currentTooltipObject, \* this.currentTooltipObject, Null when null
    timeoutId,          \* this.timeoutId: Null or the id setTimeout returned
    currentObject,      \* this.currentObject
    content,            \* what the tooltip shows: the last setContent argument
    timers,             \* the delay timers that are pending, by id
    conversions,        \* the tooltipConverter promises that have not resolved
    hovers              \* how many timers have been started (the next timer id)

mtVars == <<currentTooltipObject, timeoutId, currentObject, content, timers,
            conversions, hovers>>

vars == <<pmVars, vhVars, vbVars, cfgVars, sfVars, ccVars, mtVars>>

Op(op, m, name, v, expr, ok) ==
    [op |-> op, m |-> m, name |-> name, v |-> v, expr |-> expr, ok |-> ok]
\* A call on mediator m that threw, with the name and the expression it was given
FailedAt(op, m, name, expr) == Op(op, m, name, 0, expr, FALSE)

\* Set.add on an insertion-ordered Set.  (SetAddFront is the faulty variant
\* that puts a new member first.)
SetAddFront(s, x) == IF \E i \in DOMAIN s : s[i] = x THEN s ELSE <<x>> \o s
SetAdd(s, x) == IF \E i \in DOMAIN s : s[i] = x THEN s ELSE Append(s, x)
\* The members of an insertion-ordered Set
SeqToSet(s) == {s[i] : i \in DOMAIN s}

\* (findMediatorAnywhere is the faulty variant that looks in the whole tree)
findMediatorAnywhere(pv, m, name) ==
    IF \E x \in Mediators : pv[x][name] # NoEntry
    THEN CHOOSE x \in Mediators : pv[x][name] # NoEntry
    ELSE 0
RECURSIVE findMediatorForParam(_, _, _)
\* findMediatorForParam: this mediator if it has the name, else the parent's answer
findMediatorForParam(pv, m, name) ==
    IF m = 0 THEN 0
    ELSE IF pv[m][name] # NoEntry THEN m
    ELSE findMediatorForParam(pv, ParentOf[m], name)

getValue(pv, m, name) == MapGet(pv[m][name])

findValue(pv, m, name) ==
    LET mediator == findMediatorForParam(pv, m, name)
    IN  IF mediator = 0 THEN Undefined ELSE getValue(pv, mediator, name)

\* createExpression binds every free variable to the mediator that
\* findMediatorForParam returns; it throws when one of them is unknown.
CanBind(pv, m, expr) == \A g \in GlobalSet(expr) : findMediatorForParam(pv, m, g) # 0
Binding(pv, m, expr) ==
    [n \in Names |-> IF n \in GlobalSet(expr) THEN findMediatorForParam(pv, m, n) ELSE 0]

\* fn(): the expression evaluated over the values of the bound mediators
EvalWith(pv, bind, expr) ==
    LET g(name) == getValue(pv, bind[name], name)
    IN  IF expr = "a" THEN g("a") ELSE JsPlus(g("a"), g("b"))
EvalExpr(pv, m, expr) == EvalWith(pv, mediatorsForParams[m][expr], expr)

\* fn.addListener(listener): the listener joins the Set of every bound
\* (param, mediator) pair
AddListenerTo(pl, bind, expr, l) ==
    [mm \in Mediators |-> [n \in Names |->
        IF n \in GlobalSet(expr) /\ bind[n] = mm THEN SetAdd(pl[mm][n], l) ELSE pl[mm][n]]]

\* fn.invalidate(): every listener of myListeners leaves the Set of every
\* bound (param, mediator) pair
InvalidateIn(pl, bind, expr, mine) ==
    [mm \in Mediators |-> [n \in Names |->
        IF n \in GlobalSet(expr) /\ bind[n] = mm
        THEN SelectSeq(pl[mm][n], LAMBDA l : l \notin mine)
        ELSE pl[mm][n]]]

(***************************************************************************)
(* The setter.  A call runs to completion: it stores the value and calls   *)
(* the listeners, which may call further setters.  st carries the state    *)
(* the call changes: pv (values), ap (pending list), mq (microtasks),      *)
(* log (calls made).                                                       *)
(***************************************************************************)
LogSet(sid, m, name, changed) ==
    [t |-> IF changed THEN "set" ELSE "nop", sid |-> sid, m |-> m, name |-> name, l |-> LCb(0)]
LogCall(sid, l) == [t |-> "call", sid |-> sid, m |-> 0, name |-> "", l |-> l]
NumSets(lg) == Cardinality({i \in DOMAIN lg : lg[i].t # "call"})

\* batchPropertyChange(prop)
\* (batchPropertyChangeQueuesAlways is the faulty variant that queues a flush
\* for every change.)
batchPropertyChangeQueuesAlways(st, prop) ==
    [st EXCEPT !.ap = Append(st.ap, prop), !.mq = st.mq + 1]
batchPropertyChange(st, prop) ==
    LET ap == Append(st.ap, prop)
    IN  [st EXCEPT !.ap = ap, !.mq = IF Len(ap) = 1 THEN st.mq + 1 ELSE st.mq]

RECURSIVE setter(_, _, _, _), callListeners(_, _, _, _)
setter(st, m, name, value) ==
    LET previous == MapGet(st.pv[m][name])
        sid == NumSets(st.log) + 1
    IN  IF Identical(value, previous)
        THEN [st EXCEPT !.log = Append(st.log, LogSet(sid, m, name, FALSE))]
        ELSE callListeners([st EXCEPT !.pv[m][name] = value,
                                      !.log = Append(st.log, LogSet(sid, m, name, TRUE))],
                           paramListeners[m][name], 1, sid)

callListeners(st, listeners, i, sid) ==
    IF i > Len(listeners) THEN st
    ELSE LET l == listeners[i]
             st1 == [st EXCEPT !.log = Append(st.log, LogCall(sid, l))]
             st2 == CASE l.kind = "param" -> setter(st1, l.m, l.name, EvalExpr(st1.pv, l.m, l.expr))
                      [] l.kind = "prop" -> batchPropertyChange(st1, l.name)
                      [] OTHER -> st1
         IN  callListeners(st2, listeners, i + 1, sid)

St0 == [pv |-> paramValues, ap |-> alteredProps, mq |-> microtasks, log |-> <<>>]

NumAllocated == Cardinality({mn \in Mediators \X Names : mn[2] \in allocatedSetters[mn[1]]})
NumExpressions == Cardinality({me \in Mediators \X ExprTexts : me[2] \in expressions[me[1]]})

PMInit ==
    /\ paramValues = [m \in Mediators |-> [n \in Names |-> NoEntry]]
    /\ paramListeners = [m \in Mediators |-> [n \in Names |-> <<>>]]
    /\ allocatedSetters = [m \in Mediators |-> {}]
    /\ paramConfigs = [m \in Mediators |-> [n \in Names |-> "none"]]
    /\ expressions = [m \in Mediators |-> {}]
    /\ mediatorsForParams = [m \in Mediators |-> [e \in ExprTexts |-> [n \in Names |-> 0]]]
    /\ myListeners = [m \in Mediators |-> [e \in ExprTexts |-> {}]]
    /\ attached = [m \in Mediators |-> [e \in ExprTexts |-> {}]]
    /\ activated = 0
    /\ alteredProps = <<>>
    /\ microtasks = 0
    /\ delivered = <<>>
    /\ log = <<>>
    /\ lastOp = Op("init", 0, "", 0, "", TRUE)

PMUnchangedBut(changed) ==
    /\ UNCHANGED vhVars
    /\ UNCHANGED <<vbVars, cfgVars, sfVars, ccVars, mtVars>>
    /\ IF "paramValues" \in changed THEN TRUE ELSE UNCHANGED paramValues
    /\ IF "paramListeners" \in changed THEN TRUE ELSE UNCHANGED paramListeners
    /\ IF "allocatedSetters" \in changed THEN TRUE ELSE UNCHANGED allocatedSetters
    /\ IF "paramConfigs" \in changed THEN TRUE ELSE UNCHANGED paramConfigs
    /\ IF "expressions" \in changed THEN TRUE ELSE UNCHANGED <<expressions, mediatorsForParams>>
    /\ IF "myListeners" \in changed THEN TRUE ELSE UNCHANGED myListeners
    /\ IF "attached" \in changed THEN TRUE ELSE UNCHANGED attached
    /\ IF "activated" \in changed THEN TRUE ELSE UNCHANGED activated
    /\ IF "batch" \in changed THEN TRUE ELSE UNCHANGED <<alteredProps, microtasks>>
    /\ IF "delivered" \in changed THEN TRUE ELSE delivered' = <<>>

\* The effect of a completed setter call on the variables it can change.
ApplySetter(st) ==
    /\ Len(st.ap) <= MaxPending
    /\ paramValues' = st.pv
    /\ alteredProps' = st.ap
    /\ microtasks' = st.mq
    /\ log' = st.log

\* createExpression(expr) on mediator m: the cached function when there is
\* one, else a function bound now.  The effect on the cache.
\* (CacheExpressionAlways is the faulty variant that compiles and binds anew.)
CacheExpressionAlways(m, expr) ==
    /\ expressions' = [expressions EXCEPT ![m] = @ \cup {expr}]
    /\ mediatorsForParams' = [mediatorsForParams EXCEPT ![m][expr] = Binding(paramValues, m, expr)]
CacheExpression(m, expr) ==
    IF expr \in expressions[m]
    THEN UNCHANGED <<expressions, mediatorsForParams>>
    ELSE /\ expressions' = [expressions EXCEPT ![m] = @ \cup {expr}]
         /\ mediatorsForParams' = [mediatorsForParams EXCEPT ![m][expr] = Binding(paramValues, m, expr)]
\* createExpression succeeds when the expression is cached or all its variables resolve
CanCreate(m, expr) == expr \in expressions[m] \/ CanBind(paramValues, m, expr)
\* (BindingOfNow is the faulty variant that resolves the variables at every use)
BindingOfNow(m, expr) == Binding(paramValues, m, expr)
BindingOf(m, expr) ==
    IF expr \in expressions[m] THEN mediatorsForParams[m][expr] ELSE Binding(paramValues, m, expr)
ExprBudget(m, expr) == expr \in expressions[m] \/ NumExpressions < MaxExprs

\* registerParam({name, value}): allocateSetter(name, value), which throws when
\* the name has a setter and else runs the new setter on the initial value.
\* (RegisterParamValueOverwrite is the faulty variant without the test.)
RegisterParamValueOverwrite(m, name, v) ==
    /\ NumAllocated < MaxParams \/ name \in allocatedSetters[m]
    /\ ApplySetter(setter(St0, m, name, v))
    /\ allocatedSetters' = [allocatedSetters EXCEPT ![m] = @ \cup {name}]
    /\ paramConfigs' = [paramConfigs EXCEPT ![m][name] = "value"]
    /\ lastOp' = Op("registerParam", m, name, v, "", TRUE)
    /\ PMUnchangedBut({"paramValues", "batch", "allocatedSetters", "paramConfigs"})
RegisterParamValue(m, name, v) ==
    /\ NumAllocated < MaxParams \/ name \in allocatedSetters[m]
    /\ IF name \in allocatedSetters[m]
       THEN /\ lastOp' = FailedAt("registerParam", m, name, "")
            /\ log' = <<>>
            /\ PMUnchangedBut({})
       ELSE /\ ApplySetter(setter(St0, m, name, v))
            /\ allocatedSetters' = [allocatedSetters EXCEPT ![m] = @ \cup {name}]
            /\ paramConfigs' = [paramConfigs EXCEPT ![m][name] = "value"]
            /\ lastOp' = Op("registerParam", m, name, v, "", TRUE)
            /\ PMUnchangedBut({"paramValues", "batch", "allocatedSetters", "paramConfigs"})

\* registerParam({name, expr})
RegisterParamExpr(m, name, expr) ==
    /\ NumAllocated < MaxParams \/ name \in allocatedSetters[m]
    /\ ExprBudget(m, expr)
    /\ IF ~CanCreate(m, expr)
       THEN \* createExpression throws: unknown variable
            /\ lastOp' = FailedAt("registerParam", m, name, expr)
            /\ log' = <<>>
            /\ PMUnchangedBut({})
       ELSE IF name \in allocatedSetters[m]
       THEN \* allocateSetter throws after the expression has been cached
            /\ CacheExpression(m, expr)
            /\ lastOp' = FailedAt("registerParam", m, name, expr)
            /\ log' = <<>>
            /\ PMUnchangedBut({"expressions"})
       ELSE LET bind == BindingOf(m, expr)
                l == LParam(m, name, expr)
            IN  /\ CacheExpression(m, expr)
                /\ ApplySetter(setter(St0, m, name, EvalWith(paramValues, bind, expr)))
                /\ allocatedSetters' = [allocatedSetters EXCEPT ![m] = @ \cup {name}]
                /\ paramListeners' = AddListenerTo(paramListeners, bind, expr, l)
                /\ myListeners' = [myListeners EXCEPT ![m][expr] = @ \cup {l}]
                /\ attached' = [attached EXCEPT ![m][expr] = @ \cup {l}]
                /\ paramConfigs' = [paramConfigs EXCEPT ![m][name] = expr]
                /\ lastOp' = Op("registerParam", m, name, 0, expr, TRUE)
                /\ PMUnchangedBut({"paramValues", "batch", "allocatedSetters", "paramConfigs",
                                   "expressions", "paramListeners", "myListeners", "attached"})

\* registerParam({name, value, expr}) throws before doing anything, whatever
\* the value and the expression are.  (RegisterParamBothTakesValue is the
\* faulty variant that registers the value.)
RegisterParamBothTakesValue(m, name, v, expr) ==
    /\ name \notin allocatedSetters[m]
    /\ NumAllocated < MaxParams
    /\ ApplySetter(setter(St0, m, name, v))
    /\ allocatedSetters' = [allocatedSetters EXCEPT ![m] = @ \cup {name}]
    /\ paramConfigs' = [paramConfigs EXCEPT ![m][name] = "value"]
    /\ lastOp' = Op("registerParamBoth", m, name, 0, "", TRUE)
    /\ PMUnchangedBut({"paramValues", "batch", "allocatedSetters", "paramConfigs"})
RegisterParamBoth(m, name, v, expr) ==
    /\ lastOp' = FailedAt("registerParamBoth", m, name, "")
    /\ log' = <<>>
    /\ PMUnchangedBut({})

\* A call of the setter that allocateSetter returned, which is also the one
\* getSetter(name) returns
CallSetter(m, name, v) ==
    /\ name \in allocatedSetters[m]
    /\ ApplySetter(setter(St0, m, name, v))
    /\ lastOp' = Op("setter", m, name, v, "", TRUE)
    /\ PMUnchangedBut({"paramValues", "batch"})

\* A call of the setter that registerParam returned for an expr parameter:
\* (_) => undefined
CallNopSetter(m, name, v) ==
    /\ paramConfigs[m][name] \in ExprTexts
    /\ lastOp' = Op("nopSetter", m, name, v, "", TRUE)
    /\ log' = <<>>
    /\ PMUnchangedBut({})

\* A consumer calls createExpression(expr).addListener(cb)
AddListener(m, expr, cb) ==
    /\ ExprBudget(m, expr)
    /\ log' = <<>>
    /\ IF ~CanCreate(m, expr)
       THEN /\ lastOp' = FailedAt("addListener", m, "", expr)
            /\ PMUnchangedBut({})
       ELSE /\ CacheExpression(m, expr)
            /\ paramListeners' = AddListenerTo(paramListeners, BindingOf(m, expr), expr, LCb(cb))
            /\ myListeners' = [myListeners EXCEPT ![m][expr] = @ \cup {LCb(cb)}]
            /\ attached' = [attached EXCEPT ![m][expr] = @ \cup {LCb(cb)}]
            /\ lastOp' = Op("addListener", m, "", cb, expr, TRUE)
            /\ PMUnchangedBut({"expressions", "paramListeners", "myListeners", "attached"})

\* A consumer that holds the expression calls invalidate()
Invalidate(m, expr) ==
    /\ expr \in expressions[m]
    /\ paramListeners' = InvalidateIn(paramListeners, mediatorsForParams[m][expr], expr,
                                      myListeners[m][expr])
    /\ log' = <<>>
    /\ attached' = [attached EXCEPT ![m][expr] = {}]
    /\ lastOp' = Op("invalidate", m, "", 0, expr, TRUE)
    /\ PMUnchangedBut({"paramListeners", "attached"})

\* evaluateAndGet(expr): compile or reuse, then invoke
EvaluateAndGet(m, expr) ==
    /\ ExprBudget(m, expr)
    /\ log' = <<>>
    /\ IF ~CanCreate(m, expr)
       THEN /\ lastOp' = FailedAt("evaluateAndGet", m, "", expr)
            /\ PMUnchangedBut({})
       ELSE /\ CacheExpression(m, expr)
            /\ lastOp' = Op("evaluateAndGet", m, "", EvalWith(paramValues, BindingOf(m, expr), expr),
                            expr, TRUE)
            /\ PMUnchangedBut({"expressions"})

\* The props objects given to activateExprRefProps: entries in Object.entries
\* order; expr = "" is a scalar value.
PropsChoices ==
    { <<[key |-> "p", expr |-> "a + b"]>>,
      <<[key |-> "s", expr |-> ""], [key |-> "p", expr |-> "a"], [key |-> "q", expr |-> "a + b"]>> }

\* The loop of activateExprRefProps over the entries from index i on.  acc
\* carries the cache, the bindings, the listener registries and myListeners;
\* acc.ok turns FALSE when createExpression throws, which ends the call.
RECURSIVE activateLoop(_, _, _, _)
activateLoop(acc, m, props, i) ==
    IF i > Len(props) \/ ~acc.ok THEN acc
    ELSE LET e == props[i] IN
         IF e.expr = "" THEN activateLoop(acc, m, props, i + 1)
         ELSE IF e.expr \notin acc.ex[m] /\ ~CanBind(paramValues, m, e.expr)
         THEN [acc EXCEPT !.ok = FALSE]
         ELSE LET bind == IF e.expr \in acc.ex[m] THEN acc.mfp[m][e.expr]
                          ELSE Binding(paramValues, m, e.expr)
                  l == LProp(m, e.key, e.expr)
              IN  activateLoop([ok |-> TRUE,
                                ex |-> [acc.ex EXCEPT ![m] = @ \cup {e.expr}],
                                mfp |-> [acc.mfp EXCEPT ![m][e.expr] = bind],
                                pl |-> AddListenerTo(acc.pl, bind, e.expr, l),
                                my |-> [acc.my EXCEPT ![m][e.expr] = @ \cup {l}],
                                at |-> [acc.at EXCEPT ![m][e.expr] = @ \cup {l}]],
                               m, props, i + 1)

\* activateExprRefProps(paramMediator, props, listener)
Activate(m, props) ==
    /\ activated = 0
    /\ LET acc == activateLoop([ok |-> TRUE, ex |-> expressions, mfp |-> mediatorsForParams,
                                pl |-> paramListeners, my |-> myListeners, at |-> attached],
                               m, props, 1)
       IN  /\ Cardinality({me \in Mediators \X ExprTexts : me[2] \in acc.ex[me[1]]}) <= MaxExprs
           /\ expressions' = acc.ex
           /\ mediatorsForParams' = acc.mfp
           /\ paramListeners' = acc.pl
           /\ myListeners' = acc.my
           /\ attached' = acc.at
           /\ activated' = m
           /\ lastOp' = Op("activate", m, "", Len(props), "", acc.ok)
    /\ log' = <<>>
    /\ PMUnchangedBut({"expressions", "paramListeners", "myListeners", "attached", "activated"})

\* The queued microtask: listener(alteredProps.slice()); alteredProps.length = 0
Flush ==
    /\ microtasks > 0
    /\ microtasks' = microtasks - 1
    /\ delivered' = alteredProps
    /\ alteredProps' = <<>>
    /\ log' = <<>>
    /\ lastOp' = Op("flush", activated, "", 0, "", TRUE)
    /\ PMUnchangedBut({"batch", "delivered"})

\* The queued microtask when the listener sets a parameter while it runs:
\* the slice is taken, the setter call inside the listener pushes onto the
\* list that is not yet emptied, and the list is emptied after the listener
\* has returned.
FlushListenerSets(m, name, v) ==
    /\ microtasks > 0
    /\ name \in allocatedSetters[m]
    /\ LET st == setter([St0 EXCEPT !.mq = microtasks - 1], m, name, v)
       IN  /\ paramValues' = st.pv
           /\ microtasks' = st.mq
           /\ log' = st.log
    /\ delivered' = alteredProps
    /\ alteredProps' = <<>>
    /\ lastOp' = Op("flush", activated, name, v, "", TRUE)
    /\ PMUnchangedBut({"paramValues", "batch", "delivered"})

\* The queued microtask when the listener throws: the statement that
\* empties the list is not reached.
FlushListenerThrows ==
    /\ microtasks > 0
    /\ microtasks' = microtasks - 1
    /\ delivered' = alteredProps
    /\ alteredProps' = alteredProps
    /\ log' = <<>>
    /\ lastOp' = Op("flush", activated, "", 0, "", FALSE)
    /\ PMUnchangedBut({"batch", "delivered"})

PMNext ==
    \/ \E m \in Owners, name \in Names, v \in StaticValues : RegisterParamValue(m, name, v)
    \/ \E m \in Owners, name \in Names, expr \in ExprTexts : RegisterParamExpr(m, name, expr)
    \/ \E m \in Owners, name \in Names, v \in StaticValues, expr \in ExprTexts :
            RegisterParamBoth(m, name, v, expr)
    \/ \E m \in Mediators, name \in Names, v \in StaticValues : CallSetter(m, name, v)
    \/ \E m \in Owners, name \in Names, v \in StaticValues : CallNopSetter(m, name, v)
    \/ \E m \in Mediators, expr \in ExprTexts, cb \in Callbacks : AddListener(m, expr, cb)
    \/ \E m \in Mediators, expr \in ExprTexts : Invalidate(m, expr)
    \/ \E m \in Mediators, expr \in ExprTexts : EvaluateAndGet(m, expr)

\* The mediator tree with activateExprRefProps consumers
BatchNext ==
    \/ \E m \in Owners, name \in Names, v \in StaticValues : RegisterParamValue(m, name, v)
    \/ \E m \in Mediators, name \in Names, v \in StaticValues : CallSetter(m, name, v)
    \/ \E m \in Mediators, props \in PropsChoices : Activate(m, props)
    \/ Flush

\* The same with listeners that set a parameter or throw
ListenerNext ==
    \/ \E m \in Owners, name \in Names, v \in StaticValues : RegisterParamValue(m, name, v)
    \/ \E m \in Mediators, name \in Names, v \in StaticValues : CallSetter(m, name, v)
    \/ \E m \in Mediators, props \in PropsChoices : Activate(m, props)
    \/ Flush
    \/ \E m \in Mediators, name \in Names, v \in StaticValues : FlushListenerSets(m, name, v)
    \/ FlushListenerThrows

(***************************************************************************)
(* The view hierarchy                                                      *)
(***************************************************************************)
\* The view tree: 1 is the root layer, 2 a layer in it with the unit view 3,
\* and 4 a unit view of the root.  Children in declared order.
ViewParent == <<0, 1, 2, 1>>
Views == DOMAIN ViewParent
Children(v) == SelectSeq(<<1, 2, 3, 4>>, LAMBDA c : ViewParent[c] = v)
\* instanceof UnitView: the views that have a mark
UnitViews == {3, 4}

RECURSIVE visit(_), visitAll(_, _)
\* (visitPost is the faulty variant that calls the visitor after the children.)
visitPost(v) == visitAll(Children(v), 1) \o <<v>>
\* View.visit with a visitor that pushes the view: the view, then its children
visit(v) == <<v>> \o visitAll(Children(v), 1)
visitAll(cs, i) == IF i > Len(cs) THEN <<>> ELSE visit(cs[i]) \o visitAll(cs, i + 1)
getFlattenedViews == visit(1)
\* getMarks: the unit views of the flattened tree
\* (getMarksLastFirst is the faulty variant that lists them in reverse.)
getMarksLastFirst ==
    LET marks == SelectSeq(getFlattenedViews, LAMBDA v : v \in UnitViews)
    IN  [i \in DOMAIN marks |-> marks[Len(marks) + 1 - i]]
getMarks == SelectSeq(getFlattenedViews, LAMBDA v : v \in UnitViews)

\* A dataset: the view whose data source produced it and the transforms
\* applied to it since.  NoData is an undefined this.data.
Dataset(src, applied) == [src |-> src, applied |-> applied]
NoData == Dataset(0, <<>>)

\* Transform configs by their type: "gather" is the one registered
\* transformer and "gatherB" a gather config with other parameters;
\* transformer, "other" an unregistered type, "" a config without a type.
ViewSpecOf(data, transform) == [data |-> data, transform |-> transform]
Plain == ViewSpecOf(FALSE, <<>>)
SpecChoices ==
    { <<ViewSpecOf(TRUE, <<>>), Plain, ViewSpecOf(FALSE, <<"gather">>), Plain>>,
      <<ViewSpecOf(TRUE, <<"gather">>), ViewSpecOf(TRUE, <<>>), ViewSpecOf(FALSE, <<"gather", "gather">>),
        ViewSpecOf(FALSE, <<"gather">>)>>,
      <<Plain, ViewSpecOf(TRUE, <<>>), Plain, ViewSpecOf(FALSE, <<"gather">>)>>,
      <<ViewSpecOf(TRUE, <<>>), ViewSpecOf(FALSE, <<"gather", "other">>), Plain,
        ViewSpecOf(TRUE, <<"">>)>>,
      <<ViewSpecOf(TRUE, <<>>), Plain, ViewSpecOf(TRUE, <<"gather">>), ViewSpecOf(TRUE, <<>>)>>,
      <<Plain, ViewSpecOf(TRUE, <<>>), ViewSpecOf(FALSE, <<"gather">>),
        ViewSpecOf(FALSE, <<"gather">>)>>,
      <<ViewSpecOf(TRUE, <<"gatherB">>), Plain, ViewSpecOf(FALSE, <<"gather", "gatherB">>),
        ViewSpecOf(FALSE, <<"gatherB", "gather">>)>> }

\* (getDataOwn is the faulty variant that does not ascend.)
getDataOwn(vd, v) == IF v = 0 THEN NoData ELSE vd[v]
RECURSIVE getData(_, _)
\* View.getData: own data, else the parent's; NoData stands for the throw
getData(vd, v) ==
    IF v = 0 THEN NoData
    ELSE IF vd[v] # NoData THEN vd[v]
    ELSE getData(vd, ViewParent[v])

\* transformData(transformConfigs, rows) of the view utilities: throws on a
\* missing type and on an unknown transformer
TransformThrows(configs) == \E i \in DOMAIN configs : configs[i] \notin {"gather", "gatherB"}
\* rows = transformer(transformConfig, rows)
Transformer(config, rows) == Dataset(rows.src, Append(rows.applied, config))
\* (ApplyTransformsLastFirst is the faulty variant that runs the loop from the
\* last config to the first.)
ApplyTransformsLastFirst(configs, rows) ==
    Dataset(rows.src, rows.applied \o [i \in DOMAIN configs |-> configs[Len(configs) + 1 - i]])
RECURSIVE ApplyTransforms(_, _)
ApplyTransforms(configs, rows) ==
    IF configs = <<>> THEN rows
    ELSE ApplyTransforms(Tail(configs), Transformer(configs[1], rows))

Call(what, v, ok) == [call |-> what, view |-> v, ok |-> ok]

\* The load barrier: Promise.all fulfils when every promise has fulfilled
\* (AllLoadedSome is the faulty variant that fulfils with the first one)
AllLoadedSome(ls) == \E v \in Views : ls[v] = "fulfilled"
AllLoaded(ls) == \A v \in Views : ls[v] = "fulfilled"
\* and rejects as soon as one promise has rejected
SomeRejected(ls) == \E v \in Views : ls[v] = "rejected"

VHInit ==
    /\ viewSpec \in SpecChoices
    /\ viewData = [v \in Views |-> NoData]
    /\ loadState = [v \in Views |-> "idle"]
    /\ initPc = "idle"
    /\ initIdx = 0
    /\ markState = [v \in Views |-> "idle"]
    /\ callLog = <<>>

\* The variables of the subsystem when it is not the one specified
VHIdle ==
    /\ viewSpec = <<Plain, Plain, Plain, Plain>>
    /\ viewData = [v \in Views |-> NoData]
    /\ loadState = [v \in Views |-> "idle"]
    /\ initPc = "idle"
    /\ initIdx = 0
    /\ markState = [v \in Views |-> "idle"]
    /\ callLog = <<>>

\* initializeViewHierarchy up to its first await: views.map(view => view.loadData()).
\* loadData of a view without spec.data returns a fulfilled promise.
StartInit ==
    /\ initPc = "idle"
    /\ loadState' = [v \in Views |-> IF viewSpec[v].data THEN "pending" ELSE "fulfilled"]
    /\ callLog' = [i \in DOMAIN getFlattenedViews |-> Call("loadData", getFlattenedViews[i], TRUE)]
    /\ initPc' = "loading"
    /\ UNCHANGED <<viewSpec, viewData, initIdx, markState>>
    /\ UNCHANGED pmVars
    /\ UNCHANGED <<vbVars, cfgVars, sfVars, ccVars, mtVars>>

\* The data source delivers: this.data = await ...getData()
LoadFulfil(v) ==
    /\ loadState[v] = "pending"
    /\ loadState' = [loadState EXCEPT ![v] = "fulfilled"]
    /\ viewData' = [viewData EXCEPT ![v] = Dataset(v, <<>>)]
    /\ UNCHANGED <<viewSpec, initPc, initIdx, markState, callLog>>
    /\ UNCHANGED pmVars
    /\ UNCHANGED <<vbVars, cfgVars, sfVars, ccVars, mtVars>>

\* The data source fails
LoadReject(v) ==
    /\ loadState[v] = "pending"
    /\ loadState' = [loadState EXCEPT ![v] = "rejected"]
    /\ UNCHANGED <<viewSpec, viewData, initPc, initIdx, markState, callLog>>
    /\ UNCHANGED pmVars
    /\ UNCHANGED <<vbVars, cfgVars, sfVars, ccVars, mtVars>>

\* await Promise.all(...) returns
BarrierPass ==
    /\ initPc = "loading"
    /\ AllLoaded(loadState)
    /\ initPc' = "transforming"
    /\ initIdx' = 1
    /\ UNCHANGED <<viewSpec, viewData, loadState, markState, callLog>>
    /\ UNCHANGED pmVars
    /\ UNCHANGED <<vbVars, cfgVars, sfVars, ccVars, mtVars>>

\* await Promise.all(...) throws
BarrierFail ==
    /\ initPc = "loading"
    /\ SomeRejected(loadState)
    /\ initPc' = "failed"
    /\ UNCHANGED <<viewSpec, viewData, loadState, initIdx, markState, callLog>>
    /\ UNCHANGED pmVars
    /\ UNCHANGED <<vbVars, cfgVars, sfVars, ccVars, mtVars>>

\* One round of `for (const view of views) view.transformData()`
TransformStep ==
    /\ initPc = "transforming"
    /\ LET v == getFlattenedViews[initIdx]
           configs == viewSpec[v].transform
           rows == getData(viewData, v)
           last == initIdx = Len(getFlattenedViews)
       IN  IF configs = <<>>
           THEN \* no spec.transform
                /\ callLog' = Append(callLog, Call("transformData", v, TRUE))
                /\ viewData' = viewData
                /\ initPc' = IF last THEN "resolving" ELSE "transforming"
                /\ initIdx' = IF last THEN 1 ELSE initIdx + 1
           ELSE IF rows = NoData \/ TransformThrows(configs)
           THEN /\ callLog' = Append(callLog, Call("transformData", v, FALSE))
                /\ viewData' = viewData
                /\ initPc' = "failed"
                /\ initIdx' = initIdx
           ELSE /\ callLog' = Append(callLog, Call("transformData", v, TRUE))
                /\ viewData' = [viewData EXCEPT ![v] = ApplyTransforms(configs, rows)]
                /\ initPc' = IF last THEN "resolving" ELSE "transforming"
                /\ initIdx' = IF last THEN 1 ELSE initIdx + 1
    /\ UNCHANGED <<viewSpec, loadState, markState>>
    /\ UNCHANGED pmVars
    /\ UNCHANGED <<vbVars, cfgVars, sfVars, ccVars, mtVars>>

\* One round of `for (const view of views) if (view instanceof UnitView) view.resolve()`
ResolveStep ==
    /\ initPc = "resolving"
    /\ LET v == getFlattenedViews[initIdx]
           last == initIdx = Len(getFlattenedViews)
       IN  /\ callLog' = IF v \in UnitViews THEN Append(callLog, Call("resolve", v, TRUE))
                         ELSE callLog
           /\ initPc' = IF last THEN "marks" ELSE "resolving"
           /\ initIdx' = IF last THEN 1 ELSE initIdx + 1
    /\ UNCHANGED <<viewSpec, viewData, loadState, markState>>
    /\ UNCHANGED pmVars
    /\ UNCHANGED <<vbVars, cfgVars, sfVars, ccVars, mtVars>>

\* `for (const mark of getMarks(root)) await mark.initializeData()`: the call
MarkStart ==
    /\ initPc = "marks"
    /\ IF initIdx > Len(getMarks)
       THEN /\ initPc' = "done"
            /\ UNCHANGED <<markState, callLog>>
       ELSE /\ markState[getMarks[initIdx]] = "idle"
            /\ markState' = [markState EXCEPT ![getMarks[initIdx]] = "pending"]
            /\ callLog' = Append(callLog, Call("initializeData", getMarks[initIdx], TRUE))
            /\ initPc' = initPc
    /\ UNCHANGED <<viewSpec, viewData, loadState, initIdx>>
    /\ UNCHANGED pmVars
    /\ UNCHANGED <<vbVars, cfgVars, sfVars, ccVars, mtVars>>

\* ... and the await: the mark's promise settles
MarkSettle(ok) ==
    /\ initPc = "marks"
    /\ initIdx <= Len(getMarks)
    /\ markState[getMarks[initIdx]] = "pending"
    /\ markState' = [markState EXCEPT ![getMarks[initIdx]] = IF ok THEN "fulfilled" ELSE "rejected"]
    /\ initPc' = IF ok THEN "marks" ELSE "failed"
    /\ initIdx' = IF ok THEN initIdx + 1 ELSE initIdx
    /\ UNCHANGED <<viewSpec, viewData, loadState, callLog>>
    /\ UNCHANGED pmVars
    /\ UNCHANGED <<vbVars, cfgVars, sfVars, ccVars, mtVars>>

VHNext ==
    \/ StartInit
    \/ \E v \in Views : LoadFulfil(v)
    \/ \E v \in Views : LoadReject(v)
    \/ BarrierPass
    \/ BarrierFail
    \/ TransformStep
    \/ ResolveStep
    \/ MarkStart
    \/ \E ok \in BOOLEAN : MarkSettle(ok)

(***************************************************************************)
(* View.getEncoding and View.getRenderConfig                               *)
(***************************************************************************)
\* The keys of a configuration object and the values given to them: objects
\* themselves, with one or two properties
ConfigKeys == {"x", "color"}
ConfigValues == {[field |-> 1, type |-> 1], [field |-> 2]}
\* An object with the given keys, each mapped to the value val gives it
Obj(keys, val) == [k \in keys |-> val[k]]
EmptyObj == Obj({}, <<>>)
\* What spec.encoding of a view can be: undefined, {}, or an object
EncodingChoices ==
    { <<>>,
      <<EmptyObj>>,
      <<[x |-> [field |-> 1, type |-> 1]]>>,
      <<[x |-> [field |-> 2]]>>,
      <<[color |-> [field |-> 2]]>>,
      <<[x |-> [field |-> 2], color |-> [field |-> 1, type |-> 1]]>> }
\* What spec.renderConfig of a view can be
RenderConfigChoices ==
    { <<>>,
      <<[x |-> [field |-> 1, type |-> 1]]>>,
      <<[x |-> [field |-> 2], color |-> [field |-> 2]]>> }

\* spec.encoding || {}
OrEmpty(c) == IF c = <<>> THEN EmptyObj ELSE c[1]
\* { ...pe, ...te }: the own enumerable properties of pe, then those of te
\* (SpreadDeep is the faulty variant that merges the values of a shared key.)
SpreadDeep(pe, te) ==
    [k \in DOMAIN pe \cup DOMAIN te |->
        IF k \in DOMAIN te /\ k \in DOMAIN pe
        THEN [f \in DOMAIN pe[k] \cup DOMAIN te[k] |->
                IF f \in DOMAIN te[k] THEN te[k][f] ELSE pe[k][f]]
        ELSE IF k \in DOMAIN te THEN te[k] ELSE pe[k]]
Spread(pe, te) ==
    [k \in DOMAIN pe \cup DOMAIN te |-> IF k \in DOMAIN te THEN te[k] ELSE pe[k]]

RECURSIVE getEncoding(_, _)
\* View.getEncoding on the tree whose spec.encoding are enc
getEncoding(enc, v) ==
    LET pe == IF ViewParent[v] # 0 THEN getEncoding(enc, ViewParent[v]) ELSE EmptyObj
        te == OrEmpty(enc[v])
    IN  Spread(pe, te)

RECURSIVE getRenderConfig(_, _)
\* View.getRenderConfig on the tree whose spec.renderConfig are rc
getRenderConfig(rc, v) ==
    LET pe == IF ViewParent[v] # 0 THEN getRenderConfig(rc, ViewParent[v]) ELSE EmptyObj
        te == OrEmpty(rc[v])
    IN  Spread(pe, te)

Query(method, v, result) == [method |-> method, view |-> v, result |-> result]

\* A tree whose views have an encoding or whose views have a renderConfig
CfgInit ==
    /\ \/ /\ encoding \in [Views -> EncodingChoices]
          /\ renderConfig = [v \in Views |-> <<>>]
       \/ /\ encoding = [v \in Views |-> <<>>]
          /\ renderConfig \in [Views -> RenderConfigChoices]
    /\ cfgLast = Query("new", 0, EmptyObj)

\* The variables of the subsystem when it is not the one specified
CfgIdle ==
    /\ encoding = [v \in Views |-> <<>>]
    /\ renderConfig = [v \in Views |-> <<>>]
    /\ cfgLast = Query("new", 0, EmptyObj)

\* view.getEncoding(): assigns nothing
GetEncoding(v) ==
    /\ cfgLast' = Query("getEncoding", v, getEncoding(encoding, v))
    /\ UNCHANGED <<encoding, renderConfig>>
    /\ UNCHANGED <<pmVars, vhVars, vbVars, sfVars, ccVars, mtVars>>

\* view.getRenderConfig(): assigns nothing
GetRenderConfig(v) ==
    /\ cfgLast' = Query("getRenderConfig", v, getRenderConfig(renderConfig, v))
    /\ UNCHANGED <<encoding, renderConfig>>
    /\ UNCHANGED <<pmVars, vhVars, vbVars, sfVars, ccVars, mtVars>>

CfgNext ==
    \/ \E v \in Views : GetEncoding(v)
    \/ \E v \in Views : GetRenderConfig(v)

(***************************************************************************)
(* The sample facet of the vertex shader                                   *)
(***************************************************************************)
\* Floats are kept in thousandths; a product or quotient is rounded down
One == 1000
Floats == {0, 500, 1000}
\* The values of the uniforms and of pos that are looked at
FacetChoices == Floats \X Floats \X Floats \X Floats
OffsetChoices == {0, 100}
PosChoices == {0, 200, 500, 1000} \X Floats

\* vec != vec: some component differs
VecNotEqual(a, b) == \E i \in DOMAIN a : a[i] # b[i]
isFacetedSamples(u) == VecNotEqual(u, <<0, One, 0, One>>)
\* (isInTransitPosOnly is the faulty variant that compares the positions only.)
isInTransitPosOnly(u) == u[1] # u[3]
isInTransit(u) == VecNotEqual(<<u[1], u[2]>>, <<u[3], u[4]>>)

clamp(x, lo, hi) == IF x < lo THEN lo ELSE IF x > hi THEN hi ELSE x
\* smoothstep(edge0, edge1, x), for edge0 < edge1
smoothstep(edge0, edge1, x) ==
    LET t == clamp(((x - edge0) * One) \div (edge1 - edge0), 0, One)
    IN  (t * t * (3 * One - 2 * t)) \div (One * One)
\* mix(a, b, f) on vec2
mix(a, b, f) == [i \in DOMAIN a |-> (a[i] * (One - f) + b[i] * f) \div One]

\* interpolated.x + pos.y * interpolated.y.  (FacetYUnscaled is the faulty
\* variant that adds pos.y without scaling it by the height.)
FacetYUnscaled(interpolated, y) == interpolated[1] + y
FacetY(interpolated, y) == interpolated[1] + (y * interpolated[2]) \div One

applySampleFacet(u, offset, pos) ==
    IF ~isFacetedSamples(u) THEN pos
    ELSE LET left == <<u[1], u[2]>>
             right == <<u[3], u[4]>>
             fraction == smoothstep(0, 700 + offset, (pos[1] - offset) * 2)
             interpolated == IF isInTransit(u) THEN mix(left, right, fraction) ELSE left
         IN  <<pos[1], FacetY(interpolated, pos[2])>>

FacetCall(called, pos, result) == [called |-> called, pos |-> pos, result |-> result]

\* The uniforms of a draw call
SFInit ==
    /\ uSampleFacet \in FacetChoices
    /\ uTransitionOffset \in OffsetChoices
    /\ sfLast = FacetCall(FALSE, <<0, 0>>, <<0, 0>>)

\* The variables of the subsystem when it is not the one specified
SFIdle ==
    /\ uSampleFacet = <<0, One, 0, One>>
    /\ uTransitionOffset = 0
    /\ sfLast = FacetCall(FALSE, <<0, 0>>, <<0, 0>>)

\* The shader calls applySampleFacet(pos) for a vertex
ApplySampleFacet(pos) ==
    /\ sfLast' = FacetCall(TRUE, pos, applySampleFacet(uSampleFacet, uTransitionOffset, pos))
    /\ UNCHANGED <<uSampleFacet, uTransitionOffset>>
    /\ UNCHANGED <<pmVars, vhVars, vbVars, cfgVars, ccVars, mtVars>>

SFNext == \E pos \in PosChoices : ApplySampleFacet(pos)

(***************************************************************************)
(* Vertex builders (gl/dataToVertices.js)                                  *)
(***************************************************************************)
\* How many data items the addBatch calls of one builder are given in total
MaxData == 3
MaxGrey == 31
MaxHovers == 4

BuilderTypes == {"point", "rect", "rule", "text", "connection"}
BaseBuilders == {"point", "connection"}
Keys == {"sampleA", "sampleB"}

\* The constructor's visibleRange: [lower, upper]
visibleRange == <<2, 6>>

\* The data items: what the encoders and accessors return for a datum
PointDatum(id, shape) == [id |-> id, shape |-> shape]
PointData == {PointDatum(1, "circle"), PointDatum(2, "square"), PointDatum(3, "bogus")}
ConnectionData == {[id |-> 1], [id |-> 2]}
RuleData == {[id |-> 1], [id |-> 2]}
RectDatum(id, x, x2, y, y2, squeeze) ==
    [id |-> id, x |-> x, x2 |-> x2, y |-> y, y2 |-> y2, squeeze |-> squeeze]
RectData ==
    { RectDatum(1, 2, 6, 0, 2, "none"),     \* visible
      RectDatum(2, 6, 2, 2, 0, ""),         \* the same rect, coordinates swapped
      RectDatum(3, 0, 0, 0, 2, "none"),     \* left of the visible range
      RectDatum(4, 0, 4, 0, 2, "top"),      \* partly visible, squeezed
      RectDatum(5, 4, 8, 2, 2, "left"),     \* partly visible, squeezed, no height
      RectDatum(6, 2, 4, 0, 2, "diagonal")  \* a squeeze value _squeeze has no case for
    }
\* More rects: coordinates given in the other order, partly and wholly
\* outside the visible range, for each squeeze value _squeeze has a case for
RectCases ==
    { RectDatum(1, 5, 3, 2, 0, "none"),
      RectDatum(2, 5, 3, 2, 0, "top"),
      RectDatum(3, 5, 3, 2, 0, "bottom"),
      RectDatum(4, 5, 3, 2, 0, "left"),
      RectDatum(5, 5, 3, 2, 0, "right"),
      RectDatum(6, 4, 0, 0, 2, "none"),     \* only x and x2; reaches over the lower end
      RectDatum(7, 8, 4, 0, 2, "left"),     \* reaches over the upper end
      RectDatum(8, 0, 8, 2, 0, ""),         \* only y and y2; reaches over both ends
      RectDatum(9, 9, 7, 0, 2, "right")     \* above the visible range
    }
TextDatum(id, t, s) == [id |-> id, t |-> t, s |-> s]
TextData ==
    { TextDatum(1, "string", <<97, 32, 97>>),   \* "a a"
      TextDatum(2, "null", <<>>),
      TextDatum(3, "undefined", <<>>),
      TextDatum(4, "string", <<>>),             \* ""
      TextDatum(5, "string", <<122>>),          \* "z": not in the font
      TextDatum(6, "string", <<32>>)            \* " "
    }

SeqsUpTo(S, n) == UNION {[1..k -> S] : k \in 0..n}

\* SHAPES of marks/pointMark
SHAPES == [circle |-> 0, square |-> 1]
\* SHAPES[encoders.shape(d)] || 0
ShapeOf(d) == IF d.shape \in DOMAIN SHAPES THEN SHAPES[d.shape] ELSE 0

\* The font: metadata.common and metadata.chars
metadata ==
    [common |-> [base |-> 1, scaleH |-> 1],
     chars |-> { [id |-> 32,  x |-> 0,  y |-> 0, width |-> 2,  height |-> 10, xadvance |-> 2, yoffset |-> 0],
                 [id |-> 63,  x |-> 2,  y |-> 0, width |-> 6,  height |-> 14, xadvance |-> 4, yoffset |-> 1],
                 [id |-> 88,  x |-> 8,  y |-> 0, width |-> 8,  height |-> 16, xadvance |-> 6, yoffset |-> 0],
                 [id |-> 97,  x |-> 16, y |-> 0, width |-> 6,  height |-> 12, xadvance |-> 4, yoffset |-> 2],
                 [id |-> 120, x |-> 22, y |-> 0, width |-> 6,  height |-> 12, xadvance |-> 4, yoffset |-> 2] }]
properties == [align |-> "left", baseline |-> "alphabetic"]
chars(id) == CHOOSE e \in metadata.chars : e.id = id
getChar(charCode) ==
    IF \E e \in metadata.chars : e.id = charCode THEN chars(charCode) ELSE chars(63)

\* "" + undefined
UndefinedString == <<117, 110, 100, 101, 102, 105, 110, 101, 100>>
\* str of TextVertexBuilder.addBatch: the value if it is a string, "" for null, "" + value
\* otherwise
StrOf(d) ==
    CASE d.t = "string" -> d.s
      [] d.t = "null" -> <<>>
      [] d.t = "undefined" -> UndefinedString

\* ArrayBuilder: the values of the variable attributes before the first update
InitialPending(b) ==
    CASE b = "point" -> [d |-> 0, shape |-> 0]
      [] b = "connection" -> [d |-> 0]
      [] b = "rule" -> [d |-> 0, side |-> 0, pos |-> 0]
      [] b = "rect" -> [d |-> 0, x |-> 0, y |-> 0, width |-> 0, height |-> 0]
      [] b = "text" -> [d |-> 0, cx |-> 0, cy |-> 0, tx |-> 0, ty |-> 0, width |-> 0]

\* The builder while addBatch runs: the store, the pending values, this.index, and
\* whether an exception has left the method
Running == [vs |-> vertices, pend |-> pending, index |-> index, thrown |-> FALSE]

\* ArrayBuilder.updateFromDatum: the attributes that have a converter, from the datum
updateFromDatum(st, d) ==
    [st EXCEPT !.pend = [f \in DOMAIN @ |->
        IF f = "d" THEN d.id ELSE IF f = "shape" THEN ShapeOf(d) ELSE @[f]]]
\* ArrayBuilder.pushAll: append the pending values as one vertex
pushAll(st) == [st EXCEPT !.vs = Append(@, st.pend)]
\* ArrayBuilder.pushFromDatum
pushFromDatum(st, d) == pushAll(updateFromDatum(st, d))
\* A function made by ArrayBuilder.createUpdater(name, 1), called with v
update(st, name, v) == [st EXCEPT !.pend = [@ EXCEPT ![name] = v]]

\* Statements of an addBatch body, run in order
U(name, v) == [f |-> name, v |-> v]
P == [f |-> "pushAll", v |-> 0]
\* The pending values after the first i statements of prog: each attribute has the
\* value of its last update, or the value it had before
PendingAfter(pend, prog, i) ==
    [f \in DOMAIN pend |->
        LET js == {j \in 1..i : prog[j].f = f}
        IN  IF js = {} THEN pend[f] ELSE prog[CHOOSE j \in js : \A k \in js : k <= j].v]
\* Running prog appends, for each pushAll in it, the values pending at that statement
Run(st, prog, from) ==
    LET pushes == {i \in from..Len(prog) : prog[i].f = "pushAll"}
        nth(k) == CHOOSE i \in pushes : Cardinality({j \in pushes : j <= i}) = k
    IN  [st EXCEPT !.vs = @ \o [k \in 1..Cardinality(pushes) |->
                                    PendingAfter(st.pend, prog, nth(k))],
                   !.pend = PendingAfter(st.pend, prog, Len(prog))]

\* Map.set on the insertion-ordered rangeMap
RangeMapSet(rm, key, offset, count) ==
    IF \E i \in 1..Len(rm) : rm[i].key = key
    THEN [i \in 1..Len(rm) |->
            IF rm[i].key = key THEN [key |-> key, offset |-> offset, count |-> count] ELSE rm[i]]
    ELSE Append(rm, [key |-> key, offset |-> offset, count |-> count])

\* VertexBuilder.addBatch, the loop body
baseItem(st, p) == [pushFromDatum(st, p) EXCEPT !.index = @ + 1]

SqueezeCases == {"bottom", "top", "left", "right"}
_squeeze(squeeze, x, x2, y, y2) ==
    CASE squeeze = "bottom" ->
            [ax |-> x, ay |-> y2, bx |-> (x + x2) \div 2, by |-> y, cx |-> x2, cy |-> y2]
      [] squeeze = "top" ->
            [ax |-> x, ay |-> y, bx |-> x2, by |-> y, cx |-> (x + x2) \div 2, cy |-> y2]
      [] squeeze = "left" ->
            [ax |-> x, ay |-> (y + y2) \div 2, bx |-> x2, by |-> y, cx |-> x2, cy |-> y2]
      [] squeeze = "right" ->
            [ax |-> x, ay |-> y, bx |-> x2, by |-> (y + y2) \div 2, cx |-> x, cy |-> y2]

\* One tile of the tesselation loop, tileCount = 1
tileCount == 1
\* (RectTileNoEdgeWidth is the faulty variant that gives the vertices of the
\* first and the last tile the width 0 of an inner tile.)
RectTileNoEdgeWidth(i, x, y, y2, width, height) ==
    << U("width", 0), U("x", x + (width * i) \div tileCount), U("y", y),
       U("height", 0 - height), P, U("y", y2), U("height", height), P >>
RectTile(i, x, y, y2, width, height) ==
    LET w == IF i = 0 THEN 0 - width ELSE IF i >= tileCount THEN width ELSE 0
        tx == x + (width * i) \div tileCount
    IN  << U("width", w), U("x", tx), U("y", y), U("height", 0 - height), P,
           U("y", y2), U("height", height), P >>

\* if (a > b) [a, b] = [b, a]
\* (SwapNever is the faulty variant that leaves the two as they are.)
SwapNever(a, b) == <<a, b>>
Swap(a, b) == IF a > b THEN <<b, a>> ELSE <<a, b>>
\* if (x < lower) x = lower
\* (TruncateLowNever is the faulty variant that keeps x.)
TruncateLowNever(x, lower) == x
TruncateLow(x, lower) == IF x < lower THEN lower ELSE x
\* if (x2 > upper) x2 = upper
TruncateHigh(x2, upper) == IF x2 > upper THEN upper ELSE x2

\* RectVertexBuilder.addBatch, the loop body
rectItem(st, d) ==
    LET lower == visibleRange[1]
        upper == visibleRange[2]
        xs == Swap(d.x, d.x2)[1]
        x2s == Swap(d.x, d.x2)[2]
        x == TruncateLow(xs, lower)
        x2 == TruncateHigh(x2s, upper)
        y == Swap(d.y, d.y2)[1]
        y2 == Swap(d.y, d.y2)[2]
        width == x2 - x
        height == y2 - y
        s1 == updateFromDatum(st, d)
        c == _squeeze(d.squeeze, x, x2, y, y2)
    IN  IF x2s < lower \/ xs > upper THEN st
        ELSE IF d.squeeze # "" /\ d.squeeze # "none"
        THEN IF d.squeeze \notin SqueezeCases
             THEN [s1 EXCEPT !.thrown = TRUE]
             ELSE Run(s1, << U("x", c.ax), U("y", c.ay), P, P,
                            U("x", c.bx), U("y", c.by), P,
                            U("x", c.cx), U("y", c.cy), P, P >>, 1)
        ELSE LET s2 == Run(s1, << U("x", x), U("width", 0 - width), U("y", y),
                                  U("height", 0 - height), P >>
                                \o RectTile(0, x, y, y2, width, height)
                                \o RectTile(1, x, y, y2, width, height), 1)
             IN  Run(updateFromDatum(s2, d),
                     << U("x", x2), U("width", width), U("height", height), U("y", y2), P >>, 1)

\* RuleVertexBuilder.addBatch, the loop body; side is kept in halves
\* (RuleTileOnePush is the faulty variant that appends one vertex per tile.)
RuleTileOnePush(i) == << U("pos", i \div tileCount), U("side", -1), P >>
RuleTile(i) == << U("pos", i \div tileCount), U("side", -1), P, U("side", 1), P >>
ruleItem(st, d) ==
    Run(updateFromDatum(st, d),
        << U("side", -1), U("pos", 0), P >> \o RuleTile(0) \o RuleTile(1) \o << P >>, 1)

\* TextVertexBuilder.addBatch: the font metrics computed before the loop
sdfPadding == 5
capHeight == getChar(88).height - sdfPadding * 2
baseline ==
    CASE properties.baseline = "top" -> capHeight - sdfPadding
      [] properties.baseline = "middle" -> capHeight \div 2 - sdfPadding
      [] OTHER -> 0 - sdfPadding

RECURSIVE textWidthOf(_, _)
textWidthOf(str, i) ==
    IF i > Len(str) THEN 0 ELSE getChar(str[i]).xadvance + textWidthOf(str, i + 1)

\* The six vertices of one glyph
\* (GlyphOneVertex is the faulty variant that appends one.)
GlyphOneVertex(c, x) == << U("cx", x), P >>
Glyph(c, x) ==
    LET base == metadata.common.base
        scale == metadata.common.scaleH
        height == c.height \div base
        bottom == (0 - (c.height + c.yoffset + baseline)) \div base
        left == << U("cx", x), U("tx", c.x \div scale) >>
        right == << U("cx", x + c.width \div base), U("tx", (c.x + c.width) \div scale) >>
        top == << U("cy", bottom + height), U("ty", c.y \div scale) >>
        low == << U("cy", bottom), U("ty", (c.y + c.height) \div scale) >>
    IN  left \o top \o << P >> \o right \o top \o << P >> \o left \o low \o << P >>
        \o right \o top \o << P >> \o left \o low \o << P >> \o right \o low \o << P >>

\* The loop over the characters of str
RECURSIVE textChars(_, _, _, _)
textChars(st, str, i, x) ==
    IF i > Len(str) THEN st
    ELSE LET c == getChar(str[i])
             advance == c.xadvance \div metadata.common.base
         IN  IF c.id = 32 THEN textChars(st, str, i + 1, x + advance)
             ELSE textChars(Run(st, Glyph(c, x), 1), str, i + 1, x + advance)

\* TextVertexBuilder.addBatch, the loop body
textItem(st, d) ==
    LET str == StrOf(d)
        base == metadata.common.base
        textWidth == textWidthOf(str, 1) \div base
        firstChar == getChar(str[1])
        x0 == CASE properties.align = "right" -> 0 - textWidth
                [] properties.align = "center" -> (0 - textWidth) \div 2
                [] OTHER -> 0
        x == x0 - ((firstChar.width - firstChar.xadvance) \div base) \div 2
    IN  IF Len(str) = 0 THEN st
        ELSE textChars(update(updateFromDatum(st, d), "width", textWidth), str, 1, x)

Item(b, st, d) ==
    CASE b \in BaseBuilders -> baseItem(st, d)
      [] b = "rect" -> rectItem(st, d)
      [] b = "rule" -> ruleItem(st, d)
      [] b = "text" -> textItem(st, d)

\* for (const d of data): an exception ends the loop
RECURSIVE forEach(_, _, _, _)
forEach(b, st, data, i) ==
    IF i > Len(data) \/ st.thrown THEN st
    ELSE forEach(b, Item(b, st, data[i]), data, i + 1)

NoResult == [called |-> FALSE, vertexCount |-> 0, rangeMap |-> <<>>, divisor |-> 0]
VBCall(op, key, data, ok, offset) ==
    [op |-> op, key |-> key, data |-> data, ok |-> ok, offset |-> offset]

\* A new builder of class b
VBNew(b) ==
    /\ builder = b
    /\ index = 0
    /\ vertices = <<>>
    /\ pending = InitialPending(b)
    /\ rangeMap = <<>>
    /\ nData = 0
    /\ vbResult = NoResult
    /\ vbLast = VBCall("new", "", <<>>, TRUE, 0)

VBInit == \E b \in BuilderTypes : VBNew(b)
\* The builder when it is not the subsystem specified
VBIdle == VBNew("point")

\* What an addBatch leaves behind; count is taken after the loop, so an exception
\* leaves the vertices without a range
Batched(key, data, offset, st, count) ==
    /\ vertices' = st.vs
    /\ pending' = st.pend
    /\ index' = st.index
    /\ rangeMap' = IF ~st.thrown /\ count # 0
                   THEN RangeMapSet(rangeMap, key, offset, count) ELSE rangeMap
    /\ nData' = nData + Len(data)
    /\ vbResult' = NoResult
    /\ vbLast' = VBCall("addBatch", key, data, ~st.thrown, offset)
    /\ UNCHANGED builder
    /\ UNCHANGED <<pmVars, vhVars, cfgVars, sfVars, ccVars, mtVars>>

\* VertexBuilder.addBatch
addBatch(key, points) ==
    /\ nData + Len(points) <= MaxData
    /\ LET offset == index
           st == forEach(builder, Running, points, 1)
       IN  Batched(key, points, offset, st, st.index - offset)

\* The point and connection builders inherit addBatch
PointAddBatch(key, points) == builder = "point" /\ addBatch(key, points)
ConnectionAddBatch(key, points) == builder = "connection" /\ addBatch(key, points)

RectAddBatch(key, data) ==
    /\ builder = "rect"
    /\ nData + Len(data) <= MaxData
    /\ LET offset == Len(vertices)
           st == forEach("rect", Running, data, 1)
       IN  Batched(key, data, offset, st, Len(st.vs) - offset)

RuleAddBatch(key, data) ==
    /\ builder = "rule"
    /\ nData + Len(data) <= MaxData
    /\ LET offset == Len(vertices)
           st == forEach("rule", Running, data, 1)
       IN  Batched(key, data, offset, st, Len(st.vs) - offset)

TextAddBatch(key, data) ==
    /\ builder = "text"
    /\ nData + Len(data) <= MaxData
    /\ LET offset == Len(vertices)
           st == forEach("text", Running, data, 1)
       IN  Batched(key, data, offset, st, Len(st.vs) - offset)

\* toArrays; the connection builder's sets the divisor of each array first
ToArrays ==
    /\ vbResult' = [called |-> TRUE, vertexCount |-> index, rangeMap |-> rangeMap,
                    divisor |-> IF builder = "connection" THEN 1 ELSE 0]
    /\ vbLast' = VBCall("toArrays", "", <<>>, TRUE, 0)
    /\ UNCHANGED <<builder, index, vertices, pending, rangeMap, nData>>
    /\ UNCHANGED <<pmVars, vhVars, cfgVars, sfVars, ccVars, mtVars>>

\* One addBatch call on a rect builder, with as many data as the bound allows
(***************************************************************************)
(* The colour conversion cache (gl/dataToVertices.js)                      *)
(***************************************************************************)
\* The colours a converter is given.  Strings: "rgb(n, n, n)" for a grey
\* level n, the empty string, and a string d3-color cannot parse.  Other
\* values: null, and a d3 colour object.
Grey(n) == [kind |-> "grey", n |-> n]
EmptyString == [kind |-> "empty", n |-> 0]
Unparseable == [kind |-> "unparseable", n |-> 0]
NullColor == [kind |-> "null", n |-> 0]
ColorObject == [kind |-> "object", n |-> 128]
Colors ==
    {Grey(n) : n \in 0..MaxGrey} \cup {EmptyString, Unparseable, NullColor, ColorObject}

isString(color) == color.kind \in {"grey", "empty", "unparseable"}
\* `!color`: null and the empty string are falsy.
Falsy(color) == color.kind \in {"null", "empty"}

\* What a call gives: the array it returned, or the TypeError it threw.
Returned(v) == [ok |-> TRUE, v |-> v]
Thrown == [ok |-> FALSE, v |-> <<>>]

\* d3color: the rgb object of a string, <<>> standing for null.
d3color(color) ==
    IF color.kind = "grey" THEN <<[r |-> color.n, g |-> color.n, b |-> color.n]>> ELSE <<>>

\* A component over 255.0, in thousandths.
Normalized(c) == (c * One) \div 255

color2floatArray(color) ==
    IF Falsy(color) THEN Returned(<<One, 0, One>>)
    ELSE LET c == IF isString(color) THEN d3color(color)
                  ELSE <<[r |-> color.n, g |-> color.n, b |-> color.n]>>
         IN  IF c = <<>> THEN Thrown
             ELSE Returned(<<Normalized(c[1].r), Normalized(c[1].g), Normalized(c[1].b)>>)

CacheLimit == 30

\* `cache.size < 30`.  CacheHasRoomAlways is the faulty variant that never
\* looks at the size.
CacheHasRoomAlways(size) == TRUE
CacheHasRoom(size) == size < CacheLimit

\* The closure createCachingColor2floatArray returns: the result and the
\* cache after the call.  A conversion that throws leaves the cache alone.
c2f(c, color) ==
    IF isString(color) /\ CacheHasRoom(Cardinality(DOMAIN c))
    THEN IF color \in DOMAIN c
         THEN [result |-> Returned(c[color]), cache |-> c]
         ELSE LET value == color2floatArray(color)
              IN  IF value.ok
                  THEN [result |-> value, cache |-> (color :> value.v) @@ c]
                  ELSE [result |-> value, cache |-> c]
    ELSE [result |-> color2floatArray(color), cache |-> c]

NoColor == [kind |-> "none", n |-> 0]
CCInit ==
    /\ cache = <<>>
    /\ ccLast = [color |-> NoColor, result |-> Thrown]

\* One conversion.  Colour strings are interchangeable for the cache, so
\* the grey levels are first used in ascending order: level n only once the
\* cache holds at least n entries.
Convert(color) ==
    /\ color.kind = "grey" => color.n <= Cardinality(DOMAIN cache)
    /\ LET r == c2f(cache, color)
       IN  /\ cache' = r.cache
           /\ ccLast' = [color |-> color, result |-> r.result]
    /\ UNCHANGED <<pmVars, vhVars, vbVars, cfgVars, sfVars, mtVars>>

CCNext == \E color \in Colors : Convert(color)

(***************************************************************************)
(* MouseTracker (mouseTracker.js)                                          *)
(***************************************************************************)
\* The objects the resolver finds under the pointer; Null when it finds none
Null == 0
Objects == {1, 2}
EventTypes == {"mousemove", "mouseleave", "wheel", "click"}
\* What the tooltip shows: nothing, or the content converted from an object,
\* with the timer whose expiry started the conversion
NoContent == [obj |-> Null, timer |-> 0]
Content(obj, timer) == [obj |-> obj, timer |-> timer]

\* defaultEqTest: Object.is
eqTest(a, b) == a = b
\* The test of the then-callback: eqTest(obj, this.currentTooltipObject)
\* (StillCurrentAlways is the faulty variant that sets the content untested.)
StillCurrentAlways(obj, current) == TRUE
StillCurrent(obj, current) == eqTest(obj, current)

\* The state after the constructor
MTInit ==
    /\ currentTooltipObject = Null
    /\ timeoutId = Null
    /\ currentObject = Null
    /\ content = NoContent
    /\ timers = {}
    /\ conversions = {}
    /\ hovers = 0

\* _updateTooltip(obj), with a tooltip.  setTimeout gives the timers the ids
\* 1, 2, ...; clearTimeout removes the timer if it is still pending.
updateTooltip(obj) ==
    IF eqTest(obj, currentTooltipObject)
    THEN UNCHANGED <<currentTooltipObject, timeoutId, content, timers, hovers>>
    ELSE /\ content' = NoContent
         /\ currentTooltipObject' = obj
         /\ LET cleared == {t \in timers : t.id # timeoutId}
            IN  IF obj # Null
                THEN /\ hovers < MaxHovers
                     /\ hovers' = hovers + 1
                     /\ timeoutId' = hovers + 1
                     /\ timers' = cleared \cup {[id |-> hovers + 1, obj |-> obj]}
                ELSE /\ timers' = cleared
                     /\ UNCHANGED <<timeoutId, hovers>>

\* _handleMouseEvent(event): found is what the resolver finds at the pointer
MouseEvent(type, found, buttons) ==
    /\ LET resolvedObject == IF type \in {"mousemove", "click"} THEN found ELSE Null
       IN  /\ updateTooltip(IF buttons = 0 THEN resolvedObject ELSE Null)
           /\ currentObject' = resolvedObject
    /\ UNCHANGED conversions
    /\ UNCHANGED <<pmVars, vhVars, vbVars, cfgVars, sfVars, ccVars>>

\* clear()
Clear ==
    /\ updateTooltip(Null)
    /\ UNCHANGED <<currentObject, conversions>>
    /\ UNCHANGED <<pmVars, vhVars, vbVars, cfgVars, sfVars, ccVars>>

\* A pending timer expires: the callback calls tooltipConverter(obj)
TimerExpires(id) ==
    /\ \E t \in timers :
          /\ t.id = id
          /\ timers' = timers \ {t}
          /\ conversions' = conversions \cup {Content(t.obj, t.id)}
    /\ UNCHANGED <<currentTooltipObject, timeoutId, currentObject, content, hovers>>
    /\ UNCHANGED <<pmVars, vhVars, vbVars, cfgVars, sfVars, ccVars>>

\* The promise of a conversion resolves: the then-callback runs
ConversionResolves(id) ==
    /\ \E c \in conversions :
          /\ c.timer = id
          /\ conversions' = conversions \ {c}
          /\ content' = IF StillCurrent(c.obj, currentTooltipObject) THEN c ELSE content
    /\ UNCHANGED <<currentTooltipObject, timeoutId, currentObject, timers, hovers>>
    /\ UNCHANGED <<pmVars, vhVars, vbVars, cfgVars, sfVars, ccVars>>

MTNext ==
    \/ \E type \in EventTypes, found \in Objects \cup {Null}, buttons \in {0, 1} :
            MouseEvent(type, found, buttons)
    \/ Clear
    \/ \E id \in 1..MaxHovers : TimerExpires(id)
    \/ \E id \in 1..MaxHovers : ConversionResolves(id)

RectNext ==
    \E key \in Keys, data \in [1..MaxData -> RectCases] : RectAddBatch(key, data)

VBNext ==
    \/ \E key \in Keys, points \in SeqsUpTo(PointData, MaxData) : PointAddBatch(key, points)
    \/ \E key \in Keys, points \in SeqsUpTo(ConnectionData, MaxData) :
            ConnectionAddBatch(key, points)
    \/ \E key \in Keys, data \in SeqsUpTo(RectData, MaxData) : RectAddBatch(key, data)
    \/ \E key \in Keys, data \in SeqsUpTo(RuleData, MaxData) : RuleAddBatch(key, data)
    \/ \E key \in Keys, data \in SeqsUpTo(TextData, MaxData) : TextAddBatch(key, data)
    \/ ToArrays

(***************************************************************************)
(* The specifications                                                      *)
(***************************************************************************)
\* The mediator tree and its consumers
Init == PMInit /\ VHIdle /\ VBIdle /\ CfgIdle /\ SFIdle /\ CCInit /\ MTInit
Next == PMNext
Spec == Init /\ [][Next]_vars

\* The mediator tree with activateExprRefProps
SpecBatch == Init /\ [][BatchNext]_vars

\* The mediator tree with activateExprRefProps and any listener.  A queued
\* microtask runs.
FlushStep ==
    \/ Flush
    \/ \E m \in Mediators, name \in Names, v \in StaticValues : FlushListenerSets(m, name, v)
    \/ FlushListenerThrows
SpecListener == Init /\ [][ListenerNext]_vars /\ WF_vars(FlushStep)

\* initializeViewHierarchy on a view tree
InitViews == PMInit /\ VHInit /\ VBIdle /\ CfgIdle /\ SFIdle /\ CCInit /\ MTInit
SpecViews == InitViews /\ [][VHNext]_vars

\* One vertex builder of any class
InitVB == PMInit /\ VHIdle /\ VBInit /\ CfgIdle /\ SFIdle /\ CCInit /\ MTInit
SpecVB == InitVB /\ [][VBNext]_vars

\* A rect builder
InitRect == PMInit /\ VHIdle /\ VBNew("rect") /\ CfgIdle /\ SFIdle /\ CCInit /\ MTInit
SpecRect == InitRect /\ [][RectNext]_vars

\* The sample facet functions of the vertex shader
InitFacet == PMInit /\ VHIdle /\ VBIdle /\ CfgIdle /\ SFInit /\ CCInit /\ MTInit
SpecFacet == InitFacet /\ [][SFNext]_vars

\* The colour conversion of one vertex builder
InitColor == PMInit /\ VHIdle /\ VBIdle /\ CfgIdle /\ SFIdle /\ CCInit /\ MTInit
SpecColor == InitColor /\ [][CCNext]_vars

\* A MouseTracker with a tooltip
SpecMouse == Init /\ [][MTNext]_vars

\* The configuration queries on a view tree
InitConfig == PMInit /\ VHIdle /\ VBIdle /\ CfgInit /\ SFIdle /\ CCInit /\ MTInit
SpecConfig == InitConfig /\ [][CfgNext]_vars

(***************************************************************************)
(* Properties of ParamMediator                                             *)
(***************************************************************************)
\* JavaScript's === on the modelled values
StrictEquals(x, y) == x = y /\ x # NaN

\* The listeners that the setter invocation sid of the logged operation called
CallsOf(lg, sid) == SelectSeq(lg, LAMBDA e : e.t = "call" /\ e.sid = sid)
TimesCalled(lg, sid, l) == Len(SelectSeq(lg, LAMBDA e : e.t = "call" /\ e.sid = sid /\ e.l = l))
AllListeners == UNION {SeqToSet(paramListeners[m][n]) : m \in Mediators, n \in Names}

\* C1: a setter called with a value identical (===) to the stored one leaves
\* every value unchanged and calls no listener; called with a different
\* value it stores the value and calls every listener registered for the
\* name exactly once, and no other listener, before it returns.  The same
\* holds for the setter calls that listeners make: one that stored a value
\* called each listener of its name once, one that did not called none.
C1_SetterNotifiesOnChangeOnly ==
    [][lastOp'.op = "setter" =>
        LET m == lastOp'.m
            name == lastOp'.name
            v == lastOp'.v
            previous == getValue(paramValues, m, name)
        IN  /\ IF StrictEquals(v, previous)
               THEN /\ paramValues' = paramValues
                    /\ CallsOf(log', 1) = <<>>
                    /\ Len(log') = 1
               ELSE /\ getValue(paramValues', m, name) = v
                    /\ \A l \in AllListeners \cup {LCb(0)} :
                          TimesCalled(log', 1, l) =
                             IF l \in SeqToSet(paramListeners[m][name]) THEN 1 ELSE 0
            /\ \A i \in DOMAIN log' :
                  LET e == log'[i] IN
                  /\ e.t = "nop" => CallsOf(log', e.sid) = <<>>
                  /\ e.t = "set" =>
                        \A l \in AllListeners :
                           TimesCalled(log', e.sid, l) =
                              IF l \in SeqToSet(paramListeners[e.m][e.name]) THEN 1 ELSE 0
    ]_vars

\* A setter call stored a changed value and called two listeners, one of
\* which set an expression parameter in turn.
W_C1_ChangedWithListeners ==
    /\ lastOp.op = "setter"
    /\ Len(log) >= 4
    /\ log[1].t = "set"
    /\ Len(CallsOf(log, 1)) >= 2
    /\ \E i \in DOMAIN log : log[i].t = "set" /\ log[i].sid > 1

Ancestors(m) ==
    LET RECURSIVE up(_)
        up(x) == IF x = 0 THEN {} ELSE {x} \cup up(ParentOf[x])
    IN  up(ParentOf[m])
\* d is m or a descendant of m, and no mediator from d up to (excluding) m has
\* a setter for the name
NoNearerOwner(d, m, name) ==
    /\ d = m \/ m \in Ancestors(d)
    /\ \A x \in ({d} \cup Ancestors(d)) \ ({m} \cup Ancestors(m)) : name \notin allocatedSetters[x]

\* C2: once mediator M has registered a parameter, findValue(name) on M, and
\* on every descendant of M without a nearer owner, returns M's current
\* value of the name, whatever the initial value was and whether or not an
\* ancestor of M owns the same name.
C2_FindValueReturnsNearestOwner ==
    \A m \in Mediators, name \in Names :
        name \in allocatedSetters[m] =>
            \A d \in Mediators :
                NoNearerOwner(d, m, name) =>
                    findValue(paramValues, d, name) = getValue(paramValues, m, name)

\* C3: whenever no setter call is in progress, the stored value of a parameter
\* registered with an expr equals the expression evaluated over the current
\* values of the variables it is bound to.
C3_ExprParamFollowsExpression ==
    \A m \in Mediators, name \in Names :
        paramConfigs[m][name] \in ExprTexts =>
            getValue(paramValues, m, name) = EvalExpr(paramValues, m, paramConfigs[m][name])

\* Listener l is in the registry of (mm, n) on behalf of expression expr of
\* mediator m: it was given to that expression's addListener, and the
\* expression is bound to (mm, n).
AddedThrough(m, expr, mm, n, l) ==
    /\ expr \in expressions[m]
    /\ n \in GlobalSet(expr)
    /\ mediatorsForParams[m][expr][n] = mm
    /\ l \in myListeners[m][expr]
AddedThroughOther(m, expr, mm, n, l) ==
    \E m2 \in Mediators, e2 \in ExprTexts :
        <<m2, e2>> # <<m, expr>> /\ AddedThrough(m2, e2, mm, n, l)

\* C4: expr.invalidate() removes from the registries exactly the entries that
\* were added through that expression's addListener, and leaves in place
\* every entry that was added through another expression or for another
\* parameter.
C4_InvalidateRemovesExactlyItsOwn ==
    [][lastOp'.op = "invalidate" =>
        LET m == lastOp'.m
            expr == lastOp'.expr
        IN  \A mm \in Mediators, n \in Names :
              \A l \in SeqToSet(paramListeners[mm][n]) :
                 LET stays == l \in SeqToSet(paramListeners'[mm][n]) IN
                 /\ ~stays => AddedThrough(m, expr, mm, n, l)
                 /\ (AddedThrough(m, expr, mm, n, l) /\ ~AddedThroughOther(m, expr, mm, n, l))
                       => ~stays
                 /\ AddedThroughOther(m, expr, mm, n, l) => stays
    ]_vars

NoDuplicates(seq) == \A i, j \in DOMAIN seq : i # j => seq[i] # seq[j]

\* C5: the list of property keys that a flush of activateExprRefProps
\* delivers to the listener contains each changed property key at most
\* once, also when the property was notified several times in the tick.
C5_FlushDeliversDeduplicatedList ==
    lastOp.op = "flush" => NoDuplicates(delivered)

\* C11: an expression-backed parameter cannot be set externally: neither the
\* setter registerParam returned for it nor the one getSetter returns for its
\* name changes its stored value or calls a listener, whatever the value.
C11_ExprParamCannotBeSetExternally ==
    [][(lastOp'.op \in {"setter", "nopSetter"}
            /\ paramConfigs[lastOp'.m][lastOp'.name] \in ExprTexts) =>
        /\ getValue(paramValues', lastOp'.m, lastOp'.name)
              = getValue(paramValues, lastOp'.m, lastOp'.name)
        /\ \A i \in DOMAIN log' : log'[i].t # "call"
    ]_vars

\* C12: the mediator that supplies each free variable of an expression is chosen
\* when the expression is first created and never changes: the expression stays
\* cached with the same binding, it is evaluated over the values of the chosen
\* mediators, addListener subscribes in the chosen mediators, and a later
\* registration (also one nearer to the creating mediator) leaves its listeners
\* subscribed there.
C12_BindingChosenOnce ==
    [][\A m \in Mediators, expr \in ExprTexts :
        expr \in expressions[m] =>
            LET bind == mediatorsForParams[m][expr]
                mine == lastOp'.ok /\ lastOp'.m = m /\ lastOp'.expr = expr
            IN  /\ expr \in expressions'[m]
                /\ mediatorsForParams'[m][expr] = bind
                /\ (lastOp'.op = "evaluateAndGet" /\ mine) =>
                        lastOp'.v = EvalWith(paramValues, bind, expr)
                /\ (lastOp'.op = "addListener" /\ mine) =>
                        \A n \in GlobalSet(expr) :
                            LCb(lastOp'.v) \in SeqToSet(paramListeners'[bind[n]][n])
                /\ (lastOp'.op = "registerParam" /\ lastOp'.ok) =>
                        \A n \in GlobalSet(expr), l \in myListeners[m][expr] :
                            l \in SeqToSet(paramListeners[bind[n]][n])
                                => l \in SeqToSet(paramListeners'[bind[n]][n])
    ]_vars

\* An expression was evaluated after a mediator nearer than the chosen one had
\* got a value for one of its variables, and the result is not what the nearer
\* mediator's value would give.
W_C12_NearerOwnerIgnored ==
    /\ lastOp.op = "evaluateAndGet"
    /\ lastOp.ok
    /\ lastOp.expr \in expressions[lastOp.m]
    /\ \E n \in GlobalSet(lastOp.expr) :
            findMediatorForParam(paramValues, lastOp.m, n)
                # mediatorsForParams[lastOp.m][lastOp.expr][n]
    /\ lastOp.v # EvalWith(paramValues, Binding(paramValues, lastOp.m, lastOp.expr), lastOp.expr)

\* C13: registering a name that already has a setter in the same mediator
\* fails and leaves every stored value, setter, listener and config as it was;
\* a name without a setter in this mediator is registered with a value
\* successfully, whichever other mediators have a setter for it.
C13_SecondAllocationFails ==
    [][lastOp'.op = "registerParam" =>
        LET m == lastOp'.m
            name == lastOp'.name
        IN  /\ name \in allocatedSetters[m] =>
                  /\ ~lastOp'.ok
                  /\ UNCHANGED <<paramValues, allocatedSetters, paramListeners, paramConfigs>>
            /\ (name \notin allocatedSetters[m] /\ lastOp'.expr = "") =>
                  /\ lastOp'.ok
                  /\ name \in allocatedSetters'[m]
    ]_vars

\* A registration failed for a name that has a setter, a value and a listener in
\* the mediator, while another mediator has a setter for the same name.
W_C13_FailedWithListeners ==
    /\ lastOp.op = "registerParam"
    /\ ~lastOp.ok
    /\ lastOp.name \in allocatedSetters[lastOp.m]
    /\ paramValues[lastOp.m][lastOp.name] # NoEntry
    /\ paramListeners[lastOp.m][lastOp.name] # <<>>
    /\ \E m2 \in Mediators \ {lastOp.m} : lastOp.name \in allocatedSetters[m2]

\* C14: registerParam with both value and expr fails, whatever they are, and
\* registers nothing: values, setters, configs, listeners and the expression
\* caches are as before the call.
C14_ValueAndExprRejected ==
    [][lastOp'.op = "registerParamBoth" =>
        /\ ~lastOp'.ok
        /\ UNCHANGED <<paramValues, allocatedSetters, paramConfigs, paramListeners,
                       expressions, mediatorsForParams, myListeners>>
    ]_vars

\* The call failed for a name the mediator has nothing for, in a mediator that
\* has compiled no expression although the variable "a" would resolve.
W_C14_NothingRegistered ==
    /\ lastOp.op = "registerParamBoth"
    /\ lastOp.name \notin allocatedSetters[lastOp.m]
    /\ paramValues[lastOp.m][lastOp.name] = NoEntry
    /\ paramConfigs[lastOp.m][lastOp.name] = "none"
    /\ expressions[lastOp.m] = {}
    /\ CanBind(paramValues, lastOp.m, "a")

\* C15: createExpression with a source text the mediator has compiled before
\* returns the cached function: the call does not fail, compiles and binds
\* nothing, and the function still has the listeners it was given before,
\* whatever was registered or set between the calls.
C15_CreateExpressionIsCached ==
    [][(lastOp'.op \in {"addListener", "evaluateAndGet", "registerParam"}
            /\ lastOp'.expr \in ExprTexts
            /\ lastOp'.expr \in expressions[lastOp'.m]) =>
        /\ UNCHANGED <<expressions, mediatorsForParams>>
        /\ myListeners[lastOp'.m][lastOp'.expr] \subseteq myListeners'[lastOp'.m][lastOp'.expr]
        /\ lastOp'.op # "registerParam" => lastOp'.ok
    ]_vars

\* addListener was called through a cached function that already had a
\* listener, after a nearer mediator had got a value for one of its variables.
W_C15_CachedAfterRegistration ==
    /\ lastOp.op = "addListener"
    /\ lastOp.ok
    /\ Cardinality(myListeners[lastOp.m][lastOp.expr]) >= 2
    /\ \E n \in GlobalSet(lastOp.expr) :
            findMediatorForParam(paramValues, lastOp.m, n)
                # mediatorsForParams[lastOp.m][lastOp.expr][n]

\* Mediator m or one of its ancestors has registered the name
Owned(m, name) == \E x \in {m} \cup Ancestors(m) : name \in allocatedSetters[x]

\* The first half of C16: a failed createExpression leaves no trace
FailsCleanly(m, expr) ==
    (\E g \in GlobalSet(expr) : ~Owned(m, g)) =>
        /\ ~lastOp'.ok
        /\ UNCHANGED <<expressions, mediatorsForParams, paramListeners, myListeners>>

\* C16: createExpression of a text that is not cached fails when one of its free
\* variables is registered neither in the creating mediator nor in an ancestor,
\* and the failed call caches nothing and adds no listener; once every
\* variable has been registered there, the text compiles.
C16_UnknownVariableFailsCleanly ==
    [][(lastOp'.op \in {"addListener", "evaluateAndGet", "registerParam"}
            /\ lastOp'.expr \in ExprTexts
            /\ lastOp'.expr \notin expressions[lastOp'.m]) =>
        /\ FailsCleanly(lastOp'.m, lastOp'.expr)
        /\ (\A g \in GlobalSet(lastOp'.expr) : Owned(lastOp'.m, g))
              => lastOp'.expr \in expressions'[lastOp'.m]
    ]_vars

\* C17: parameters are scoped: findValue(name) on a mediator is unresolved
\* unless the mediator or one of its ancestors has registered the name, so a
\* parameter of a sibling or of a child is not seen, and neither is a name
\* registered nowhere; getValue(name) is unresolved unless the mediator itself
\* has registered the name.
C17_ParametersAreScoped ==
    \A d \in Mediators, name \in Names :
        /\ ~Owned(d, name) => findValue(paramValues, d, name) = Undefined
        /\ name \notin allocatedSetters[d] => getValue(paramValues, d, name) = Undefined

\* A child of the root has a value for a name that neither its sibling nor the
\* root can resolve, while the child reads a root parameter it does not own.
W_C17_SiblingCannotSee ==
    \E name, other \in Names :
        /\ paramValues[2][name] = 1
        /\ ~Owned(3, name)
        /\ ~Owned(1, name)
        /\ findValue(paramValues, 3, name) = Undefined
        /\ other \notin allocatedSetters[2]
        /\ findValue(paramValues, 2, other) = 1
        /\ getValue(paramValues, 2, other) = Undefined

\* Expression expr of mediator m reads the name from mediator owner
BoundTo(m, expr, name, owner) ==
    /\ expr \in expressions[m]
    /\ name \in GlobalSet(expr)
    /\ mediatorsForParams[m][expr][name] = owner

\* C18: after expr.addListener(cb), with expr not invalidated since, a value
\* change of a variable the expression is bound to, made through the setter
\* of the owning mediator, calls cb; a value change of a parameter that no
\* expression cb was added through is bound to does not call cb.
C18_ListenerFollowsItsBinding ==
    [][(lastOp'.op = "setter" /\ log'[1].t = "set") =>
        \A cb \in Callbacks :
            /\ (\E m \in Mediators, expr \in ExprTexts :
                    /\ LCb(cb) \in attached[m][expr]
                    /\ BoundTo(m, expr, lastOp'.name, lastOp'.m))
                  => TimesCalled(log', 1, LCb(cb)) >= 1
            /\ (\A m \in Mediators, expr \in ExprTexts :
                    LCb(cb) \in myListeners[m][expr]
                        => ~BoundTo(m, expr, lastOp'.name, lastOp'.m))
                  => TimesCalled(log', 1, LCb(cb)) = 0
    ]_vars

IndexOf(seq, x) == CHOOSE i \in DOMAIN seq : seq[i] = x
\* The members of old that are in new are in the same order there, and the
\* members new has got come after them
OrderKept(old, new) ==
    \A i, j \in DOMAIN new :
        (i < j /\ new[j] \in SeqToSet(old)) =>
            /\ new[i] \in SeqToSet(old)
            /\ IndexOf(old, new[i]) < IndexOf(old, new[j])
ListenersOf(calls) == [i \in DOMAIN calls |-> calls[i].l]

\* C19: a setter that stores a changed value calls the listeners registered
\* for the name before it returns and in the order in which they were
\* registered: the calls it makes are the registry in its order (also for the
\* setters its listeners call), and every operation keeps the registered
\* listeners in their order and puts new ones behind them.
C19_ListenersCalledInRegistrationOrder ==
    [][/\ lastOp'.op = "setter" =>
            \A i \in DOMAIN log' :
                log'[i].t = "set" =>
                    ListenersOf(CallsOf(log', log'[i].sid))
                        = paramListeners[log'[i].m][log'[i].name]
       /\ \A m \in Mediators, n \in Names :
            OrderKept(paramListeners[m][n], paramListeners'[m][n])
    ]_vars

\* A setter stored a changed value and called the expression parameter's
\* listener and then a consumer's callback, registered in that order.
W_C19_TwoListenersInOrder ==
    /\ lastOp.op = "setter"
    /\ log[1].t = "set"
    /\ Len(paramListeners[lastOp.m][lastOp.name]) = 2
    /\ ListenersOf(CallsOf(log, 1)) = paramListeners[lastOp.m][lastOp.name]
    /\ paramListeners[lastOp.m][lastOp.name][1].kind = "param"
    /\ paramListeners[lastOp.m][lastOp.name][2].kind = "cb"

\* The property keys whose listeners the logged operation called, in order
NotifiedProps(lg) ==
    LET calls == SelectSeq(lg, LAMBDA e : e.t = "call" /\ e.l.kind = "prop")
    IN  [i \in DOMAIN calls |-> calls[i].l.name]

\* C30: every property change is appended to the pending list, and as long
\* as the list is not empty exactly one flush is queued, so the changes made
\* before the flush runs cause one call of the listener; the flush gives the
\* listener the whole pending list and empties it, after which no flush is
\* queued until the next change queues a new one.  (The listener returns and
\* sets no parameter.)
C30_OneFlushPerTick ==
    [][ /\ lastOp'.op = "setter" => alteredProps' = alteredProps \o NotifiedProps(log')
        /\ microtasks' = (IF alteredProps' = <<>> THEN 0 ELSE 1)
        /\ microtasks' < microtasks =>
              /\ alteredProps # <<>>
              /\ delivered' = alteredProps
              /\ alteredProps' = <<>>
        /\ delivered' # <<>> => microtasks' < microtasks
    ]_vars

\* Two setter calls changed the property before the flush ran, and the one
\* flush gave the listener both changes and left the pending list empty.
W_C30_TwoChangesOneFlush ==
    /\ lastOp.op = "flush"
    /\ delivered = <<"p", "p">>
    /\ alteredProps = <<>>
    /\ microtasks = 0

\* The members of a list
Members(seq) == {seq[i] : i \in DOMAIN seq}

\* C33: no property change is lost.  A change notified during a step is
\* pending after it, a pending change stays pending until a flush gives it
\* to the listener, a setter call that leaves a change pending leaves a
\* flush queued, and so every pending change is eventually given to the
\* listener by a flush.
C33_NoChangeIsLost ==
    /\ [][ /\ Members(NotifiedProps(log')) \subseteq Members(alteredProps')
           /\ Members(alteredProps) \subseteq Members(alteredProps') \cup Members(delivered')
       ]_vars
    /\ []((lastOp.op = "setter" /\ alteredProps # <<>>) => microtasks > 0)
    /\ (alteredProps # <<>>) ~> (lastOp.op = "flush" /\ delivered # <<>>)

(***************************************************************************)
(* Properties of initializeViewHierarchy                                   *)
(***************************************************************************)
CallsTo(lg, what) == SelectSeq(lg, LAMBDA c : c.call = what)
FailedCalls(lg) == SelectSeq(lg, LAMBDA c : ~c.ok)

\* C6: no transformData is called before every view's loadData has completed
\* successfully; once a load or a transform has failed the initialization
\* fails, and after the failure no further transformData, resolve or
\* initializeData is called.
C6_TransformsAfterLoadsAndFailFast ==
    [][ /\ Len(CallsTo(callLog', "transformData")) > Len(CallsTo(callLog, "transformData"))
            => \A v \in Views : loadState[v] = "fulfilled"
        /\ SomeRejected(loadState')
            => /\ initPc' \in {"loading", "failed"}
               /\ Len(callLog') = Len(getFlattenedViews)
        /\ FailedCalls(CallsTo(callLog', "transformData")) # <<>> => initPc' = "failed"
        /\ initPc = "failed" => initPc' = "failed" /\ callLog' = callLog
    ]_vars

\* A transform failed after another view's transform had succeeded, and the
\* initialization has failed.
W_C6_TransformFailed ==
    /\ initPc = "failed"
    /\ FailedCalls(callLog) # <<>>
    /\ Len(CallsTo(callLog, "transformData")) >= 2
    /\ \A v \in Views : loadState[v] = "fulfilled"

RECURSIVE ViewAncestors(_)
ViewAncestors(v) ==
    IF ViewParent[v] = 0 THEN {} ELSE {ViewParent[v]} \cup ViewAncestors(ViewParent[v])
\* The child of v that w is or descends from
Branch(v, w) == CHOOSE c \in Views : ViewParent[c] = v /\ c \in {w} \cup ViewAncestors(w)
\* v comes before w in the depth-first pre-order with children in declared
\* order: v is an ancestor of w, or below their nearest common ancestor v is
\* in a child declared before the child w is in
PreOrderBefore(v, w) ==
    \/ v \in ViewAncestors(w)
    \/ /\ v # w
       /\ w \notin ViewAncestors(v)
       /\ \E a \in ViewAncestors(v) \cap ViewAncestors(w) :
            /\ Branch(a, v) # Branch(a, w)
            /\ \E i, j \in DOMAIN Children(a) :
                  i < j /\ Children(a)[i] = Branch(a, v) /\ Children(a)[j] = Branch(a, w)
TransformedViews ==
    LET t == CallsTo(callLog, "transformData") IN [i \in DOMAIN t |-> t[i].view]

\* C20: initializeViewHierarchy calls transformData on no view twice, on a
\* view only after it has called it on all of the view's ancestors, and in the
\* depth-first pre-order of the tree with children in declared order; when its
\* transform loop has completed (no load was rejected and no transform threw)
\* it has called transformData on every view exactly once.
C20_TransformsTopDownOnce ==
    /\ \A i, j \in DOMAIN TransformedViews :
          i < j => PreOrderBefore(TransformedViews[i], TransformedViews[j])
    /\ \A i \in DOMAIN TransformedViews :
          \A a \in ViewAncestors(TransformedViews[i]) :
              \E j \in 1..(i - 1) : TransformedViews[j] = a
    /\ initPc \in {"resolving", "marks", "done"} =>
          \A v \in Views :
              Cardinality({i \in DOMAIN TransformedViews : TransformedViews[i] = v}) = 1

\* The initialization has completed, a view of the inner layer having
\* transformed the data its ancestor's transform had produced.
W_C20_AllTransformed ==
    /\ initPc = "done"
    /\ Len(TransformedViews) = Cardinality(Views)
    /\ viewSpec[1].transform # <<>>
    /\ viewSpec[3].transform # <<>>

\* The views on the path from v to the root, v included
PathToRoot(v) == {v} \cup ViewAncestors(v)
\* The own configuration c of a view defines key k
Defines(c, k) == c # <<>> /\ k \in DOMAIN c[1]
\* The view nearest to v on its path to the root whose configuration defines k
NearestDefining(cfg, v, k) ==
    CHOOSE w \in PathToRoot(v) :
        /\ Defines(cfg[w], k)
        /\ \A u \in PathToRoot(v) : w \in ViewAncestors(u) => ~Defines(cfg[u], k)
\* result is the configuration that the views on the path of v give: the
\* keys any of them defines, each with the whole value of the nearest one
EffectiveConfig(cfg, v, result) ==
    /\ DOMAIN result = {k \in ConfigKeys : \E w \in PathToRoot(v) : Defines(cfg[w], k)}
    /\ \A k \in DOMAIN result :
          /\ result[k] = cfg[NearestDefining(cfg, v, k)][1][k]
          /\ result[k] \in ConfigValues

\* C21: getEncoding() of a view returns exactly the keys that the encoding of
\* some view on the path from the view to the root defines, each with the
\* whole value that the nearest such view gives it, and getRenderConfig()
\* does the same with the renderConfig; neither call changes a view's spec.
C21_ConfigIsOverlaidPerKey ==
    [][ /\ cfgLast'.method = "getEncoding"
            => EffectiveConfig(encoding, cfgLast'.view, cfgLast'.result)
        /\ cfgLast'.method = "getRenderConfig"
            => EffectiveConfig(renderConfig, cfgLast'.view, cfgLast'.result)
        /\ encoding' = encoding
        /\ renderConfig' = renderConfig
    ]_vars

\* getEncoding() of the inner unit view returned x with the one-property
\* value of the view itself, not merged with the two-property value that the
\* root gives x, and color with the value of the layer between them.
W_C21_ChildValueReplacesParents ==
    /\ cfgLast.method = "getEncoding"
    /\ cfgLast.view = 3
    /\ encoding[1] = <<[x |-> [field |-> 1, type |-> 1]]>>
    /\ encoding[2] = <<[color |-> [field |-> 2]]>>
    /\ encoding[3] = <<[x |-> [field |-> 2]]>>
    /\ cfgLast.result = [x |-> [field |-> 2], color |-> [field |-> 2]]

\* The views on the path from v to the root that hold a dataset
Holders(vd, v) == {w \in PathToRoot(v) : vd[w] # NoData}
\* The one of them nearest to v
NearestHolder(vd, v) ==
    CHOOSE w \in Holders(vd, v) : \A u \in Holders(vd, v) : w \notin ViewAncestors(u)

\* C22: getData() of a view returns the dataset of the nearest view on the
\* path from the view to the root (itself included) that holds one and fails
\* when none does, so a transformData that needs data works on that dataset
\* or fails; loadData() of a view whose spec declares no data changes no
\* view's data: only a transformData assigns data to such a view.
C22_GetDataAscendsToNearestHolder ==
    [][ /\ \A v \in Views :
              IF Holders(viewData, v) = {}
              THEN getData(viewData, v) = NoData
              ELSE getData(viewData, v) = viewData[NearestHolder(viewData, v)]
        /\ Len(callLog') > Len(callLog) /\ callLog'[Len(callLog')].call = "transformData"
            => LET c == callLog'[Len(callLog')]
                   configs == viewSpec[c.view].transform
               IN  /\ (c.ok /\ configs # <<>>) =>
                          /\ Holders(viewData, c.view) # {}
                          /\ viewData'[c.view] =
                               ApplyTransforms(configs, viewData[NearestHolder(viewData, c.view)])
                   /\ (configs # <<>> /\ Holders(viewData, c.view) = {}) => ~c.ok
        /\ \A v \in Views :
              (~viewSpec[v].data /\ viewData'[v] # viewData[v])
                  => /\ Len(callLog') > Len(callLog)
                     /\ callLog'[Len(callLog')] = Call("transformData", v, TRUE)
    ]_vars

\* The inner unit view, which declares no data, has transformed the dataset
\* of the layer above it, and the transformData of the other unit view has
\* failed because neither it nor the root holds a dataset.
W_C22_NearestHolderAndFailure ==
    /\ ~viewSpec[3].data /\ ~viewSpec[4].data /\ ~viewSpec[1].data
    /\ viewData[3] = Dataset(2, <<"gather">>)
    /\ viewData[1] = NoData /\ viewData[4] = NoData
    /\ callLog # <<>>
    /\ callLog[Len(callLog)] = Call("transformData", 4, FALSE)

\* C35: a transformData call on a view whose spec declares transforms gives
\* the view the dataset getData() returned when it was called with the
\* declared transforms applied to it in declared order, and changes the data
\* of no other view; on a view that declares none, and when it throws, it
\* changes no view's data.
C35_TransformDataChangesOnlyItsNode ==
    [][ Len(callLog') > Len(callLog) /\ callLog'[Len(callLog')].call = "transformData"
            => LET c == callLog'[Len(callLog')]
                   configs == viewSpec[c.view].transform
                   rows == viewData[NearestHolder(viewData, c.view)]
               IN  /\ \A w \in Views \ {c.view} : viewData'[w] = viewData[w]
                   /\ (configs = <<>> \/ ~c.ok) => viewData'[c.view] = viewData[c.view]
                   /\ (configs # <<>> /\ c.ok) =>
                          /\ viewData'[c.view].src = rows.src
                          /\ viewData'[c.view].applied = rows.applied \o configs
    ]_vars

\* The root has transformed its own dataset and the two unit views, which
\* declare no data, have each applied their two transforms, in their own
\* order, to the transformed dataset of the root, which it still holds.
W_C35_TwoOrdersOverTheRootsData ==
    /\ viewData[1] = Dataset(1, <<"gatherB">>)
    /\ viewData[2] = NoData
    /\ viewData[3] = Dataset(1, <<"gatherB", "gather", "gatherB">>)
    /\ viewData[4] = Dataset(1, <<"gatherB", "gatherB", "gather">>)

\* The place of a call in the sequence of steps
StepOf(c) ==
    CASE c.call = "loadData" -> 0
      [] c.call = "transformData" -> 1
      [] c.call = "resolve" -> 2
      [] OTHER -> 3
ViewsCalled(what) == LET t == CallsTo(callLog, what) IN [i \in DOMAIN t |-> t[i].view]

\* C34: the calls of initializeViewHierarchy come step after step: every
\* transformData before any resolve and every resolve before any
\* initializeData; resolve is called on unit views only, on all of them;
\* the marks are initialized in the depth-first pre-order of their views,
\* each once, and a mark's initializeData is called only when the marks
\* before it have completed theirs; at the end every mark has.
C34_StepsInSequenceMarksOneAtATime ==
    /\ \A i, j \in DOMAIN callLog : i < j => StepOf(callLog[i]) <= StepOf(callLog[j])
    /\ ViewsCalled("resolve") # <<>> =>
          /\ \A v \in Views : \E i \in DOMAIN callLog :
                callLog[i] = Call("transformData", v, TRUE)
          /\ FailedCalls(callLog) = <<>>
    /\ \A i \in DOMAIN ViewsCalled("resolve") : ViewsCalled("resolve")[i] \in UnitViews
    /\ ViewsCalled("initializeData") # <<>> =>
          \A v \in UnitViews : \E i \in DOMAIN callLog : callLog[i] = Call("resolve", v, TRUE)
    /\ \A what \in {"resolve", "initializeData"} :
          \A i, j \in DOMAIN ViewsCalled(what) :
              i < j => PreOrderBefore(ViewsCalled(what)[i], ViewsCalled(what)[j])
    /\ \A i \in DOMAIN ViewsCalled("initializeData") :
          /\ ViewsCalled("initializeData")[i] \in UnitViews
          /\ \A v \in UnitViews :
                PreOrderBefore(v, ViewsCalled("initializeData")[i])
                    => markState[v] = "fulfilled"
    /\ \A v \in Views :
          markState[v] # "idle" => \E i \in DOMAIN callLog :
              callLog[i] = Call("initializeData", v, TRUE)
    /\ Cardinality({v \in Views : markState[v] = "pending"}) <= 1
    /\ initPc = "done" => \A v \in UnitViews : markState[v] = "fulfilled"

\* The initialization has completed: four loads, four transforms, two
\* resolves and two mark initializations were called.
W_C34_AllStepsDone ==
    /\ initPc = "done"
    /\ Len(callLog) = 12
    /\ ViewsCalled("initializeData") = <<3, 4>>
    /\ \E v \in Views : viewSpec[v].transform # <<>>

\* C7: the load barrier completes, with success or with failure, only when
\* every view's loadData has settled: once initializeViewHierarchy has
\* returned or failed no load is pending.
C7_BarrierWaitsForEveryLoad ==
    initPc \in {"done", "failed"} => \A v \in Views : loadState[v] # "pending"

(***************************************************************************)
(* Properties of the vertex builders                                       *)
(***************************************************************************)
RECURSIVE SumCounts(_, _)
SumCounts(rm, i) == IF i > Len(rm) THEN 0 ELSE rm[i].count + SumCounts(rm, i + 1)

\* C8: for every builder class and any sequence of addBatch calls with any keys, the
\* counts of the rangeMap entries add up to the vertexCount that toArrays() returns.
C8_CountsSumToVertexCount ==
    vbResult.called => SumCounts(vbResult.rangeMap, 1) = vbResult.vertexCount

\* C9: after any sequence of addBatch calls, the rangeMap entries in insertion order
\* start at offset 0, each next entry starts where the previous one ends, and the last
\* one ends at the number of vertices appended to the store.
C9_RangesPartitionTheBuffer ==
    Len(rangeMap) > 0 =>
        /\ rangeMap[1].offset = 0
        /\ \A i \in 1..(Len(rangeMap) - 1) :
                rangeMap[i + 1].offset = rangeMap[i].offset + rangeMap[i].count
        /\ rangeMap[Len(rangeMap)].offset + rangeMap[Len(rangeMap)].count = Len(vertices)

\* C10: for every builder class toArrays().vertexCount is the number of vertices the
\* addBatch calls appended to the variable store; a rect builder that was given one
\* visible rect without squeeze reports one range {offset 0, count 6} and vertexCount 6.
C10_VertexCountIsStoreLength ==
    vbResult.called =>
        /\ vbResult.vertexCount = Len(vertices)
        /\ (builder = "rect" /\ nData = 1 /\ Len(vertices) = 6) =>
                /\ Len(vbResult.rangeMap) = 1
                /\ vbResult.rangeMap[1].offset = 0
                /\ vbResult.rangeMap[1].count = 6
                /\ vbResult.vertexCount = 6

(***************************************************************************)
(* Properties of addBatch                                                  *)
(***************************************************************************)
\* rangeMap.get(key): the entry, or <<>> for undefined
RangeGet(rm, key) ==
    IF \E i \in DOMAIN rm : rm[i].key = key
    THEN LET e == rm[CHOOSE i \in DOMAIN rm : rm[i].key = key]
         IN  <<[offset |-> e.offset, count |-> e.count]>>
    ELSE <<>>
\* A rect datum whose interval, after x and x2 are put in order, lies outside
\* the visible range is skipped; no other builder skips a datum
Skipped(b, d) ==
    /\ b = "rect"
    /\ \/ (IF d.x > d.x2 THEN d.x ELSE d.x2) < visibleRange[1]
       \/ (IF d.x > d.x2 THEN d.x2 ELSE d.x) > visibleRange[2]
Squeezed(d) == d.squeeze \notin {"", "none"}
\* The vertices of one datum that is not skipped
VerticesPerItem(b, d) ==
    CASE b \in {"point", "connection"} -> 1
      [] b = "rule" -> 6
      [] b = "rect" -> IF Squeezed(d) THEN 5 ELSE 6
NotSkipped(b, data) == {i \in DOMAIN data : ~Skipped(b, data[i])}
RECURSIVE ExpectedCount(_, _, _)
ExpectedCount(b, data, i) ==
    IF i > Len(data) THEN 0
    ELSE (IF Skipped(b, data[i]) THEN 0 ELSE VerticesPerItem(b, data[i]))
            + ExpectedCount(b, data, i + 1)
CountedBuilders == {"point", "connection", "rule", "rect"}
\* This step is an addBatch of one of these builders that returned
AddBatchReturned == vbLast'.op = "addBatch" /\ vbLast'.ok /\ builder \in CountedBuilders

Lesser(a, b) == IF a <= b THEN a ELSE b
Greater(a, b) == IF a <= b THEN b ELSE a
\* The datum with x <= x2 and y <= y2 that has the same corners
PreSwapped(d) ==
    [d EXCEPT !.x = Lesser(d.x, d.x2), !.x2 = Greater(d.x, d.x2),
              !.y = Lesser(d.y, d.y2), !.y2 = Greater(d.y, d.y2)]
InOtherOrder(d) == d.x > d.x2 \/ d.y > d.y2

\* C24: the vertices that a rect builder appends for a batch, with every
\* attribute of every vertex, are the ones it appends for the batch in which
\* each datum with x > x2 or y > y2 has these coordinates swapped beforehand,
\* without squeeze and with each of the four squeeze values.
C24_SwappedRectGivesSameVertices ==
    [][(vbLast'.op = "addBatch" /\ builder = "rect") =>
        LET data == vbLast'.data
            swapped == [i \in DOMAIN data |-> PreSwapped(data[i])]
        IN  /\ vertices' = forEach("rect", Running, swapped, 1).vs
            /\ \A i \in DOMAIN data :
                  rectItem(Running, data[i]).vs = rectItem(Running, PreSwapped(data[i])).vs
    ]_vars

\* A batch with a rect without squeeze and a squeezed rect, both given with
\* x > x2 and y > y2, has been converted to eleven vertices or more.
W_C24_BothPathsInOtherOrder ==
    /\ builder = "rect"
    /\ vbLast.op = "addBatch" /\ vbLast.ok
    /\ \E i, j \in DOMAIN vbLast.data :
          /\ vbLast.data[i].x > vbLast.data[i].x2 /\ vbLast.data[i].y > vbLast.data[i].y2
          /\ vbLast.data[i].squeeze = "none"
          /\ vbLast.data[j].x > vbLast.data[j].x2 /\ vbLast.data[j].y > vbLast.data[j].y2
          /\ vbLast.data[j].squeeze \in SqueezeCases
    /\ Len(vertices) >= 11

\* The vertices that the last addBatch appended
Appended == SubSeq(vertices, vbLast.offset + 1, Len(vertices))

\* C25: a rect builder appends no vertex for a datum whose x interval, put in
\* order, lies wholly outside the visible range, and the x of every vertex it
\* appends lies within the range.
C25_RectsClippedToVisibleRange ==
    builder = "rect" =>
        /\ \A i \in DOMAIN vertices :
              visibleRange[1] <= vertices[i].x /\ vertices[i].x <= visibleRange[2]
        /\ vbLast.op = "addBatch" =>
              /\ \A i \in DOMAIN vbLast.data :
                    Skipped("rect", vbLast.data[i]) =>
                        \A j \in DOMAIN Appended : Appended[j].d # vbLast.data[i].id
              /\ \A i \in DOMAIN vbLast.data :
                    ~Skipped("rect", vbLast.data[i]) =>
                        \E j \in DOMAIN Appended : Appended[j].d = vbLast.data[i].id

\* A batch of a rect that reaches over the lower end of the range, one that
\* reaches over the upper end and one above the range has been converted: the
\* first two have vertices at the ends of the range, the third has none.
W_C25_ClampedAndSkipped ==
    /\ builder = "rect"
    /\ vbLast.op = "addBatch" /\ vbLast.ok
    /\ \E i, j, k \in DOMAIN vbLast.data :
          /\ Lesser(vbLast.data[i].x, vbLast.data[i].x2) < visibleRange[1]
          /\ ~Skipped("rect", vbLast.data[i])
          /\ \E n \in DOMAIN vertices :
                vertices[n].d = vbLast.data[i].id /\ vertices[n].x = visibleRange[1]
          /\ Greater(vbLast.data[j].x, vbLast.data[j].x2) > visibleRange[2]
          /\ ~Skipped("rect", vbLast.data[j])
          /\ \E n \in DOMAIN vertices :
                vertices[n].d = vbLast.data[j].id /\ vertices[n].x = visibleRange[2]
          /\ Skipped("rect", vbLast.data[k])
    /\ Len(vertices) = 11

\* The characters of a string that are not the space
NonSpaces(str) == Cardinality({i \in DOMAIN str : str[i] # 32})
RECURSIVE ExpectedGlyphs(_, _)
\* The characters other than spaces in the string data of a batch from the i-th on
ExpectedGlyphs(data, i) ==
    IF i > Len(data) THEN 0 ELSE NonSpaces(data[i].s) + ExpectedGlyphs(data, i + 1)
InFont(code) == \E e \in metadata.chars : e.id = code

\* C26: with a font that has a glyph for the space and one for "?", a text
\* builder appends 6 * (k - s) vertices for a datum whose text is a string of
\* k characters of which s are spaces, a character that the font does not
\* have counting as one that is not a space, and none for the empty string;
\* a batch of strings gets the sum.
C26_SixVerticesPerGlyph ==
    [][(vbLast'.op = "addBatch" /\ builder = "text") =>
        LET data == vbLast'.data
        IN  /\ \A i \in DOMAIN data :
                  data[i].t = "string" =>
                      Len(textItem(Running, data[i]).vs) - Len(vertices)
                          = 6 * NonSpaces(data[i].s)
            /\ (\A i \in DOMAIN data : data[i].t = "string") =>
                  Len(vertices') - Len(vertices) = 6 * ExpectedGlyphs(data, 1)
    ]_vars

\* A batch of "a a", of a character that the font does not have and of "" has
\* been converted to 12 + 6 + 0 vertices.
W_C26_SpaceUnknownAndEmpty ==
    /\ builder = "text"
    /\ vbLast.op = "addBatch" /\ vbLast.ok
    /\ \E i, j, k \in DOMAIN vbLast.data :
          /\ vbLast.data[i].t = "string" /\ Len(vbLast.data[i].s) = 3
          /\ \E n \in DOMAIN vbLast.data[i].s : vbLast.data[i].s[n] = 32
          /\ vbLast.data[j].t = "string" /\ Len(vbLast.data[j].s) = 1
          /\ ~InFont(vbLast.data[j].s[1])
          /\ vbLast.data[k].t = "string" /\ vbLast.data[k].s = <<>>
    /\ Len(Appended) = 18

\* The text value of the datum is null, undefined or the empty string
MissingText(d) == d.t \in {"null", "undefined"} \/ (d.t = "string" /\ d.s = <<>>)

\* C27: a text builder appends no vertex for a datum whose text value is
\* null, undefined or the empty string, and an addBatch whose only datum is
\* such a one appends nothing and leaves rangeMap without a new entry.
C27_MissingTextGivesNoVertices ==
    [][(vbLast'.op = "addBatch" /\ builder = "text") =>
        LET data == vbLast'.data
        IN  /\ \A i \in DOMAIN data :
                  MissingText(data[i]) =>
                      Len(textItem(Running, data[i]).vs) = Len(vertices)
            /\ (Len(data) = 1 /\ MissingText(data[1])) =>
                  /\ vertices' = vertices
                  /\ rangeMap' = rangeMap
    ]_vars

\* The last addBatch appended a vertex for its i-th datum
Converted(i) == \E j \in DOMAIN Appended : Appended[j].d = vbLast.data[i].id
\* A datum of the text builder that has a character to draw
HasGlyph(d) == d.t = "string" /\ NonSpaces(d.s) > 0

\* C28: no datum makes addBatch fail, and the data after a malformed one are
\* converted: a point with an unknown shape name gets shape index 0, a
\* character that the font does not have gets the glyph of "?", a null or
\* empty text gets no vertex, and a rect of no size or with a squeeze value
\* other than none, top, bottom, left and right still gets its vertices.
C28_MalformedDatumDoesNotAbort ==
    vbLast.op = "addBatch" =>
        /\ vbLast.ok
        /\ builder = "point" =>
              /\ Len(Appended) = Len(vbLast.data)
              /\ \A i \in DOMAIN Appended :
                    Appended[i].shape = ShapeOf(vbLast.data[i])
              /\ \A i \in DOMAIN vbLast.data :
                    vbLast.data[i].shape \notin DOMAIN SHAPES => Appended[i].shape = 0
        /\ builder = "rect" =>
              \A i \in DOMAIN vbLast.data : ~Skipped("rect", vbLast.data[i]) => Converted(i)
        /\ builder = "text" =>
              /\ \A i \in DOMAIN vbLast.data : HasGlyph(vbLast.data[i]) => Converted(i)
              /\ \A i \in DOMAIN vbLast.data :
                    (MissingText(vbLast.data[i]) /\ vbLast.data[i].t # "undefined")
                        => ~Converted(i)

\* The number of vertices that the data before the i-th give
VerticesBefore(b, data, i) == ExpectedCount(b, SubSeq(data, 1, i - 1), 1)

Fresh(b) == [vs |-> <<>>, pend |-> InitialPending(b), index |-> 0, thrown |-> FALSE]
\* The vertices of the i-th datum of the last batch
VerticesOf(i) ==
    LET first == VerticesBefore(builder, vbLast.data, i) + 1
    IN  SubSeq(Appended, first, first + VerticesPerItem(builder, vbLast.data[i]) - 1)
\* They are the ones the datum gives when it is the first of the builder
AloneTheSame(i) == VerticesOf(i) = Item(builder, Fresh(builder), vbLast.data[i]).vs

\* C37: the vertices a builder appends for a datum, with every attribute,
\* are those it appends for the datum when nothing was added before it.
C37_VerticesDependOnTheDatumOnly ==
    (builder \in CountedBuilders /\ vbLast.op = "addBatch" /\ vbLast.ok) =>
        \A i \in NotSkipped(builder, vbLast.data) : AloneTheSame(i)

(***************************************************************************)
(* Properties of the sample facet functions                                *)
(***************************************************************************)
\* C29: isFacetedSamples is false exactly when uSampleFacet is (0, 1, 0, 1),
\* isInTransit is false exactly when the left position and height are the
\* right position and height, and applySampleFacet returns the position it
\* was given whenever the samples are not faceted.
C29_FacetPredicatesAndIdentity ==
    /\ ~isFacetedSamples(uSampleFacet) <=> uSampleFacet = <<0, 1000, 0, 1000>>
    /\ ~isInTransit(uSampleFacet)
          <=> (uSampleFacet[1] = uSampleFacet[3] /\ uSampleFacet[2] = uSampleFacet[4])
    /\ (sfLast.called /\ uSampleFacet = <<0, 1000, 0, 1000>>) => sfLast.result = sfLast.pos
    /\ \A pos \in PosChoices :
          ~isFacetedSamples(uSampleFacet)
              => applySampleFacet(uSampleFacet, uTransitionOffset, pos) = pos

\* applySampleFacet was called without faceting, during a transition, for a
\* position that is not the origin, and returned the position.
W_C29_NotFacetedReturnsPos ==
    /\ sfLast.called
    /\ uSampleFacet = <<0, 1000, 0, 1000>>
    /\ uTransitionOffset = 100
    /\ sfLast.pos = <<500, 500>>
    /\ sfLast.result = <<500, 500>>

\* C32: applySampleFacet returns the x it was given, and when the samples
\* are faceted and not in transit the y it returns is
\* leftPos + y * leftHeight, whatever the transition offset is.
C32_FacetedMapsYIntoLeftBand ==
    /\ sfLast.called => sfLast.result[1] = sfLast.pos[1]
    /\ (/\ sfLast.called
        /\ uSampleFacet # <<0, One, 0, One>>
        /\ uSampleFacet[1] = uSampleFacet[3]
        /\ uSampleFacet[2] = uSampleFacet[4])
          => /\ sfLast.result[2]
                  = uSampleFacet[1] + (sfLast.pos[2] * uSampleFacet[2]) \div One
             /\ \A offset \in OffsetChoices :
                    applySampleFacet(uSampleFacet, offset, sfLast.pos) = sfLast.result

\* A faceted band at 0.5 of height 0.5, not in transit, with a transition
\* offset set: the middle of the view is mapped to 0.75.
W_C32_MiddleOfLowerHalfBand ==
    /\ sfLast.called
    /\ uSampleFacet = <<500, 500, 500, 500>>
    /\ uTransitionOffset = 100
    /\ sfLast.pos = <<200, 500>>
    /\ sfLast.result = <<200, 750>>

(***************************************************************************)
(* Properties of the colour conversion cache                               *)
(***************************************************************************)
\* C31: the cache never holds more than 30 entries, every entry is the
\* direct conversion of its colour string, and every conversion through the
\* cache gives what the direct conversion of the same colour gives, the
\* TypeError of an unparseable string included.
C31_CacheBoundedAndTransparent ==
    /\ Cardinality(DOMAIN cache) <= CacheLimit
    /\ \A color \in DOMAIN cache : Returned(cache[color]) = color2floatArray(color)
    /\ ccLast.color # NoColor => ccLast.result = color2floatArray(ccLast.color)

\* A string converted past a full cache, after earlier conversions hit it.
W_C31_ConvertedPastFullCache ==
    /\ Cardinality(DOMAIN cache) = CacheLimit
    /\ isString(ccLast.color)
    /\ ccLast.color \notin DOMAIN cache
    /\ ccLast.result.ok
    /\ EmptyString \in DOMAIN cache

(***************************************************************************)
(* Properties of MouseTracker                                              *)
(***************************************************************************)
\* C38: the content the tooltip shows was converted from an object that
\* equals the current tooltip object, so the tooltip is empty while the
\* current tooltip object is null; a conversion that resolves sets the
\* content only when its object equals the current tooltip object, and
\* nothing else sets content.
C38_ContentIsOfTheCurrentObject ==
    /\ [](content # NoContent => eqTest(content.obj, currentTooltipObject))
    /\ [](currentTooltipObject = Null => content = NoContent)
    /\ [][content' # content =>
            \/ content' = NoContent
            \/ /\ content' \in conversions \ conversions'
               /\ eqTest(content'.obj, currentTooltipObject)
               /\ currentTooltipObject' = currentTooltipObject
       ]_vars

\* The tooltip shows the content of the object under the pointer while the
\* conversion started for the object that was left is still in flight.
W_C38_StaleConversionInFlight ==
    /\ currentTooltipObject = 2
    /\ content = Content(2, 2)
    /\ conversions = {Content(1, 1)}

\* C39: a change of the tooltip object empties the tooltip and leaves no
\* timer pending but the one it starts; the content shown was converted at
\* the expiry of the timer the last change started; at most one timer is
\* pending.
C39_OnlyTheLatestTimerSetsContent ==
    /\ [][currentTooltipObject' # currentTooltipObject =>
            /\ content' = NoContent
            /\ \A t \in timers' : t.id = timeoutId' /\ t \notin timers
       ]_vars
    /\ [](content # NoContent => content.timer = timeoutId)
    /\ [](Cardinality(timers) <= 1)

====
